---------------------------- MODULE Spec2Model ----------------------------
(***************************************************************************)
(* BLE Mesh provisioner: node registry (ble_mesh_storage.c), composition   *)
(* parser and configuration-client callback (ble_mesh_callbacks.c) and the *)
(* automatic model configuration steps (ble_mesh_auto_config.c).           *)
(***************************************************************************)
EXTENDS Integers, Sequences, FiniteSets, Bags, TLC

(***************************************************************************)
(* Program constants                                                       *)
(***************************************************************************)
ESP_BLE_MESH_CID_NVAL == 65535
MESH_STORAGE_MAX_NODES == 10
MAX_MODELS_PER_NODE == 16
MAX_DISCOVERED_MODELS == 16
DEFAULT_WIFI_RETRY == 5
LED_OFF == 0
GROUP_SENSOR_DATA == 49153
PUBLISH_TTL == 7
PUBLISH_PERIOD == 0
PROV_OWN_ADDR == 1

(***************************************************************************)
(* Bounds of the model                                                     *)
(***************************************************************************)
\* provisioning-complete events delivered in one run
MaxProv == 2
\* unsolicited (repeated or out-of-phase) events delivered in one run
MaxStray == 2
\* provisioning-complete events in a run with unsolicited events
MaxProvAny == 1
\* request submissions the mesh stack refuses in one run
MaxFail == 1

(***************************************************************************)
(* Inputs: identifiers, addresses, model ids                               *)
(***************************************************************************)
UUIDs == {"u1", "u2"}
Addrs == {5, 6}

CID_ESP == 741
VENDOR_MODEL_ID_CLIENT == 0
VENDOR_MODEL_ID_SERVER == 1

Sig(id) == [model_id |-> id, company_id |-> ESP_BLE_MESH_CID_NVAL]
Vnd(cid, id) == [model_id |-> id, company_id |-> cid]

\* uint8_t / uint16_t arithmetic
Inc8(x) == (x + 1) % 256
Lo(x) == x % 256
Hi(x) == (x \div 256) % 256
Le16(lo, hi) == lo + 256 * hi

(***************************************************************************)
(* Model classification helpers (ble_mesh_auto_config.c)                   *)
(***************************************************************************)
\* model_supports_publication without the vendor guard clause
model_supports_publication_sig(model_id, company_id) ==
    model_id \in {4096, 4098, 4100, 4102, 4104, 4106, 4108, 4110,
                  4352, 4608, 4609, 4864, 4865, 4867, 4868}

\* model_supports_publication without the odd case labels
model_supports_publication_even(model_id, company_id) ==
    IF company_id # ESP_BLE_MESH_CID_NVAL THEN TRUE
    ELSE model_id \in {4096, 4098, 4100, 4102, 4104, 4106, 4108, 4110,
                       4352, 4608, 4864, 4868}

model_supports_publication(model_id, company_id) ==
    IF company_id # ESP_BLE_MESH_CID_NVAL THEN TRUE
    ELSE model_id \in {4096, 4098, 4100, 4102, 4104, 4106, 4108, 4110,
                       4352, 4608, 4609, 4864, 4865, 4867, 4868}

get_publication_address(model_id) ==
    IF model_id = 4352 THEN GROUP_SENSOR_DATA ELSE GROUP_SENSOR_DATA

model_supports_subscription(model_id, company_id) ==
    IF company_id # ESP_BLE_MESH_CID_NVAL THEN model_id = 0
    ELSE model_id = 4354

get_subscription_address(model_id) ==
    IF model_id = 4354 THEN GROUP_SENSOR_DATA ELSE GROUP_SENSOR_DATA

\* model_needs_appkey_binding deciding by the model id alone
model_needs_appkey_binding_by_id(model_id, company_id) ==
    ~(model_id = 0 \/ model_id = 1)

model_needs_appkey_binding(model_id, company_id) ==
    IF company_id # ESP_BLE_MESH_CID_NVAL THEN TRUE
    ELSE IF model_id = 0 \/ model_id = 1 THEN FALSE
    ELSE TRUE

(***************************************************************************)
(* Composition data parser (ble_mesh_callbacks.c)                          *)
(***************************************************************************)
\* net_buf_simple_pull: the buffer without its first n bytes
Pull(buf, n) == SubSeq(buf, n + 1, Len(buf))

\* a SIG loop that does not stop at max_models
RECURSIVE ParseSig_uncapped(_, _, _, _, _)
ParseSig_uncapped(buf, models, i, num_sig, max_models) ==
    IF i < num_sig /\ Len(buf) >= 2
    THEN LET r == ParseSig_uncapped(Pull(buf, 2),
                                    Append(models,
                                           [model_id |-> Le16(buf[1], buf[2]),
                                            company_id |-> ESP_BLE_MESH_CID_NVAL,
                                            is_vendor |-> FALSE]),
                                    i + 1, num_sig, max_models)
         IN  [r EXCEPT !.pulled = @ + 2]
    ELSE [buf |-> buf, models |-> models, pulled |-> 0]

\* a vendor loop that reads the model id before the company id
RECURSIVE ParseVnd_swapped(_, _, _, _, _)
ParseVnd_swapped(buf, models, i, num_vnd, max_models) ==
    IF i < num_vnd /\ Len(models) < max_models /\ Len(buf) >= 4
    THEN LET r == ParseVnd_swapped(Pull(buf, 4),
                                   Append(models,
                                          [model_id |-> Le16(buf[1], buf[2]),
                                           company_id |-> Le16(buf[3], buf[4]),
                                           is_vendor |-> TRUE]),
                                   i + 1, num_vnd, max_models)
         IN  [r EXCEPT !.pulled = @ + 4]
    ELSE [buf |-> buf, models |-> models, pulled |-> 0]

\* the loops return the buffer left, the models found so far and the number
\* of bytes they pulled
RECURSIVE ParseSig(_, _, _, _, _)
\* for (i = 0; i < num_sig && model_count < max_models && buf->len >= 2; i++)
ParseSig(buf, models, i, num_sig, max_models) ==
    IF i < num_sig /\ Len(models) < max_models /\ Len(buf) >= 2
    THEN LET r == ParseSig(Pull(buf, 2),
                           Append(models,
                                  [model_id |-> Le16(buf[1], buf[2]),
                                   company_id |-> ESP_BLE_MESH_CID_NVAL,
                                   is_vendor |-> FALSE]),
                           i + 1, num_sig, max_models)
         IN  [r EXCEPT !.pulled = @ + 2]
    ELSE [buf |-> buf, models |-> models, pulled |-> 0]

RECURSIVE ParseVnd(_, _, _, _, _)
\* for (i = 0; i < num_vnd && model_count < max_models && buf->len >= 4; i++)
ParseVnd(buf, models, i, num_vnd, max_models) ==
    IF i < num_vnd /\ Len(models) < max_models /\ Len(buf) >= 4
    THEN LET r == ParseVnd(Pull(buf, 4),
                           Append(models,
                                  [model_id |-> Le16(buf[3], buf[4]),
                                   company_id |-> Le16(buf[1], buf[2]),
                                   is_vendor |-> TRUE]),
                           i + 1, num_vnd, max_models)
         IN  [r EXCEPT !.pulled = @ + 4]
    ELSE [buf |-> buf, models |-> models, pulled |-> 0]

RECURSIVE ParseElements(_, _, _)
\* while (buf->len >= 4 && model_count < max_models)
ParseElements(buf, models, max_models) ==
    IF Len(buf) >= 4 /\ Len(models) < max_models
    THEN LET num_sig == buf[3]
             num_vnd == buf[4]
             s == ParseSig(Pull(buf, 4), models, 0, num_sig, max_models)
             v == ParseVnd(s.buf, s.models, 0, num_vnd, max_models)
             r == ParseElements(v.buf, v.models, max_models)
         IN  [r EXCEPT !.pulled = @ + 4 + s.pulled + v.pulled]
    ELSE [buf |-> buf, models |-> models, pulled |-> 0]

\* a parser that takes the elements to start at the first byte
parse_composition_data_noheader(buf, max_models) ==
    ParseElements(buf, << >>, max_models).models

\* the discovered models, in declaration order; its length is the return value
parse_composition_data(buf, max_models) ==
    IF Len(buf) < 10 THEN << >>
    ELSE ParseElements(Pull(buf, 10), << >>, max_models).models

\* the number of bytes the net_buf_simple_pull calls of one
\* parse_composition_data call take from the buffer
ParsePulled(buf, max_models) ==
    IF Len(buf) < 10 THEN 0
    ELSE 10 + ParseElements(Pull(buf, 10), << >>, max_models).pulled

(***************************************************************************)
(* Node registry (ble_mesh_storage.c)                                      *)
(***************************************************************************)
ModelIdx == 0 .. (MAX_MODELS_PER_NODE - 1)
NodeIdx == 0 .. (MESH_STORAGE_MAX_NODES - 1)

\* node_model_info_t after memset(0)
ZeroModel == [model_id |-> 0, company_id |-> 0, is_vendor |-> FALSE,
              appkey_bound |-> FALSE, pub_configured |-> FALSE,
              sub_configured |-> FALSE]

\* mesh_node_info_t after memset(0)
ZeroNode == [uuid |-> "", unicast |-> 0, elem_num |-> 0, onoff_state |-> 0,
             models |-> [i \in ModelIdx |-> ZeroModel], model_count |-> 0,
             next_model_to_bind |-> 0, next_model_to_pub |-> 0,
             next_model_to_sub |-> 0,
             composition_received |-> FALSE, appkey_added |-> FALSE]

RECURSIVE SlotFrom(_, _, _, _)
\* for (i = 0; i < node_count; i++) if (nodes[i].unicast == unicast): the
\* first such slot, or -1 (ESP_ERR_NOT_FOUND)
SlotFrom(nds, cnt, unicast, i) ==
    IF i >= cnt THEN -1
    ELSE IF nds[i].unicast = unicast THEN i
    ELSE SlotFrom(nds, cnt, unicast, i + 1)

SlotOf(nds, cnt, unicast) == SlotFrom(nds, cnt, unicast, 0)

RECURSIVE UuidSlotFrom(_, _, _, _)
\* for (i = 0; i < node_count; i++) if (memcmp(nodes[i].uuid, uuid, 16) == 0)
UuidSlotFrom(nds, cnt, uuid, i) ==
    IF i >= cnt THEN -1
    ELSE IF nds[i].uuid = uuid THEN i
    ELSE UuidSlotFrom(nds, cnt, uuid, i + 1)

\* mesh_storage_add_node that, for a stored UUID, takes the new address and
\* keeps the stored element count and OnOff state
mesh_storage_add_node_stale(nds, cnt, uuid, unicast, elem_num, onoff_state) ==
    IF cnt >= MESH_STORAGE_MAX_NODES
    THEN [err |-> "ESP_ERR_NO_MEM", nodes |-> nds, node_count |-> cnt]
    ELSE LET k == UuidSlotFrom(nds, cnt, uuid, 0)
         IN  IF k >= 0
             THEN [err |-> "ESP_OK",
                   nodes |-> [nds EXCEPT ![k].unicast = unicast],
                   node_count |-> cnt]
             ELSE [err |-> "ESP_OK",
                   nodes |-> [nds EXCEPT ![cnt].uuid = uuid,
                                         ![cnt].unicast = unicast,
                                         ![cnt].elem_num = elem_num,
                                         ![cnt].onoff_state = onoff_state],
                   node_count |-> cnt + 1]

\* mesh_storage_add_node whose capacity test is node_count > MAX
mesh_storage_add_node_over(nds, cnt, uuid, unicast, elem_num, onoff_state) ==
    IF cnt > MESH_STORAGE_MAX_NODES
    THEN [err |-> "ESP_ERR_NO_MEM", nodes |-> nds, node_count |-> cnt]
    ELSE LET k == UuidSlotFrom(nds, cnt, uuid, 0)
         IN  IF k >= 0
             THEN [err |-> "ESP_OK",
                   nodes |-> [nds EXCEPT ![k].unicast = unicast,
                                         ![k].elem_num = elem_num,
                                         ![k].onoff_state = onoff_state],
                   node_count |-> cnt]
             ELSE [err |-> "ESP_OK",
                   nodes |-> [nds EXCEPT ![cnt].uuid = uuid,
                                         ![cnt].unicast = unicast,
                                         ![cnt].elem_num = elem_num,
                                         ![cnt].onoff_state = onoff_state],
                   node_count |-> cnt + 1]

mesh_storage_add_node(nds, cnt, uuid, unicast, elem_num, onoff_state) ==
    IF cnt >= MESH_STORAGE_MAX_NODES
    THEN [err |-> "ESP_ERR_NO_MEM", nodes |-> nds, node_count |-> cnt]
    ELSE LET k == UuidSlotFrom(nds, cnt, uuid, 0)
         IN  IF k >= 0
             THEN [err |-> "ESP_OK",
                   nodes |-> [nds EXCEPT ![k].unicast = unicast,
                                         ![k].elem_num = elem_num,
                                         ![k].onoff_state = onoff_state],
                   node_count |-> cnt]
             ELSE [err |-> "ESP_OK",
                   nodes |-> [nds EXCEPT ![cnt].uuid = uuid,
                                         ![cnt].unicast = unicast,
                                         ![cnt].elem_num = elem_num,
                                         ![cnt].onoff_state = onoff_state],
                   node_count |-> cnt + 1]

mesh_storage_get_node(nds, cnt, unicast) ==
    LET k == SlotOf(nds, cnt, unicast)
    IN  IF k >= 0 THEN [err |-> "ESP_OK", info |-> nds[k]]
        ELSE [err |-> "ESP_ERR_NOT_FOUND", info |-> ZeroNode]

\* mesh_storage_update_node writing the first entry whatever the address
mesh_storage_update_node_first(nds, cnt, unicast, info) ==
    IF cnt > 0 THEN [nds EXCEPT ![0] = info] ELSE nds

\* mesh_storage_update_node writing the last entry when no entry has the
\* address
mesh_storage_update_node_last(nds, cnt, unicast, info) ==
    LET k == SlotOf(nds, cnt, unicast)
    IN  IF k >= 0 THEN [nds EXCEPT ![k] = info]
        ELSE IF cnt > 0 THEN [nds EXCEPT ![cnt - 1] = info]
        ELSE nds

\* what mesh_storage_update_node returns for a non-NULL info
mesh_storage_update_node_err(nds, cnt, unicast) ==
    IF SlotOf(nds, cnt, unicast) >= 0 THEN "ESP_OK" ELSE "ESP_ERR_NOT_FOUND"

\* the registry after the call (unchanged on ESP_ERR_NOT_FOUND)
mesh_storage_update_node(nds, cnt, unicast, info) ==
    LET k == SlotOf(nds, cnt, unicast)
    IN  IF k >= 0 THEN [nds EXCEPT ![k] = info] ELSE nds

(***************************************************************************)
(* Requests handed to the mesh stack                                       *)
(* (esp_ble_mesh_config_client_get_state / _set_state)                      *)
(***************************************************************************)
\* one submitted request: common->opcode, common->ctx.addr and the fields of
\* set_state the opcode uses (0 where the opcode has no such field)
Request(opcode, addr, element_addr, model_id, company_id, dest, ttl, period) ==
    [opcode |-> opcode, addr |-> addr, element_addr |-> element_addr,
     model_id |-> model_id, company_id |-> company_id,
     dest |-> dest, ttl |-> ttl, period |-> period]

\* the "Node fully configured" announcement of the callback
ReadyEvent(addr) == Request("READY", addr, 0, 0, 0, 0, 0, 0)

(***************************************************************************)
(* Configuration steps (ble_mesh_auto_config.c).  F is the set of model    *)
(* indices whose request the mesh stack refuses (err != ESP_OK).  Result:  *)
(* ret (the bool returned), info (the node_info left by the call), reqs (the    *)
(* requests submitted), nfail (refused submissions).                       *)
(***************************************************************************)
\* bind_next_model with the cursor also advanced when a request is submitted
RECURSIVE bind_next_model_advancing(_, _, _)
bind_next_model_advancing(addr, node_info, F) ==
    IF node_info.next_model_to_bind < node_info.model_count
    THEN LET idx == node_info.next_model_to_bind
             model == node_info.models[idx]
             skip == [node_info EXCEPT !.next_model_to_bind = Inc8(@)]
         IN  IF model.appkey_bound
             THEN bind_next_model_advancing(addr, skip, F)
             ELSE IF ~model_needs_appkey_binding(model.model_id, model.company_id)
             THEN bind_next_model_advancing(addr,
                      [skip EXCEPT !.models[idx].appkey_bound = TRUE], F)
             ELSE IF idx \in F
             THEN LET r == bind_next_model_advancing(addr, skip, F)
                  IN  [r EXCEPT !.nfail = @ + 1]
             ELSE [ret |-> TRUE, info |-> skip, nfail |-> 0,
                   reqs |-> << Request("MODEL_APP_BIND", addr, node_info.unicast,
                                       model.model_id, model.company_id, 0, 0, 0) >>]
    ELSE [ret |-> FALSE, info |-> node_info, nfail |-> 0, reqs |-> << >>]

\* bind_next_model that goes on scanning after a request is submitted
RECURSIVE bind_next_model_all(_, _, _)
bind_next_model_all(addr, node_info, F) ==
    IF node_info.next_model_to_bind < node_info.model_count
    THEN LET idx == node_info.next_model_to_bind
             model == node_info.models[idx]
             skip == [node_info EXCEPT !.next_model_to_bind = Inc8(@)]
         IN  IF model.appkey_bound
             THEN bind_next_model_all(addr, skip, F)
             ELSE IF ~model_needs_appkey_binding(model.model_id, model.company_id)
             THEN bind_next_model_all(addr,
                      [skip EXCEPT !.models[idx].appkey_bound = TRUE], F)
             ELSE LET r == bind_next_model_all(addr, skip, F)
                  IN  IF idx \in F
                      THEN [r EXCEPT !.nfail = @ + 1]
                      ELSE [ret |-> TRUE, info |-> r.info, nfail |-> r.nfail,
                            reqs |-> << Request("MODEL_APP_BIND", addr,
                                                node_info.unicast, model.model_id,
                                                model.company_id, 0, 0, 0) >>
                                     \o r.reqs]
    ELSE [ret |-> FALSE, info |-> node_info, nfail |-> 0, reqs |-> << >>]

RECURSIVE bind_next_model(_, _, _)
bind_next_model(addr, node_info, F) ==
    IF node_info.next_model_to_bind < node_info.model_count
    THEN LET idx == node_info.next_model_to_bind
             model == node_info.models[idx]
             skip == [node_info EXCEPT !.next_model_to_bind = Inc8(@)]
         IN  IF model.appkey_bound
             THEN bind_next_model(addr, skip, F)
             ELSE IF ~model_needs_appkey_binding(model.model_id, model.company_id)
             THEN bind_next_model(addr,
                      [skip EXCEPT !.models[idx].appkey_bound = TRUE], F)
             ELSE IF idx \in F
             THEN LET r == bind_next_model(addr, skip, F)
                  IN  [r EXCEPT !.nfail = @ + 1]
             ELSE [ret |-> TRUE, info |-> node_info, nfail |-> 0,
                   reqs |-> << Request("MODEL_APP_BIND", addr, node_info.unicast,
                                       model.model_id, model.company_id, 0, 0, 0) >>]
    ELSE [ret |-> FALSE, info |-> node_info, nfail |-> 0, reqs |-> << >>]

RECURSIVE configure_next_publication(_, _, _)
configure_next_publication(addr, node_info, F) ==
    IF node_info.next_model_to_pub < node_info.model_count
    THEN LET idx == node_info.next_model_to_pub
             model == node_info.models[idx]
             skip == [node_info EXCEPT !.next_model_to_pub = Inc8(@)]
         IN  IF model.pub_configured
             THEN configure_next_publication(addr, skip, F)
             ELSE IF ~model_supports_publication(model.model_id, model.company_id)
             THEN configure_next_publication(addr,
                      [skip EXCEPT !.models[idx].pub_configured = TRUE], F)
             ELSE IF idx \in F
             THEN LET r == configure_next_publication(addr, skip, F)
                  IN  [r EXCEPT !.nfail = @ + 1]
             ELSE [ret |-> TRUE, info |-> node_info, nfail |-> 0,
                   reqs |-> << Request("MODEL_PUB_SET", addr, node_info.unicast,
                                       model.model_id, model.company_id,
                                       get_publication_address(model.model_id),
                                       PUBLISH_TTL, PUBLISH_PERIOD) >>]
    ELSE [ret |-> FALSE, info |-> node_info, nfail |-> 0, reqs |-> << >>]

RECURSIVE subscribe_next_model(_, _, _)
subscribe_next_model(addr, node_info, F) ==
    IF node_info.next_model_to_sub < node_info.model_count
    THEN LET idx == node_info.next_model_to_sub
             model == node_info.models[idx]
             skip == [node_info EXCEPT !.next_model_to_sub = Inc8(@)]
         IN  IF model.sub_configured
             THEN subscribe_next_model(addr, skip, F)
             ELSE IF ~model_supports_subscription(model.model_id, model.company_id)
             THEN subscribe_next_model(addr,
                      [skip EXCEPT !.models[idx].sub_configured = TRUE], F)
             ELSE IF idx \in F
             THEN LET r == subscribe_next_model(addr, skip, F)
                  IN  [r EXCEPT !.nfail = @ + 1]
             ELSE [ret |-> TRUE, info |-> node_info, nfail |-> 0,
                   reqs |-> << Request("MODEL_SUB_ADD", addr, node_info.unicast,
                                       model.model_id, model.company_id,
                                       get_subscription_address(model.model_id),
                                       0, 0) >>]
    ELSE [ret |-> FALSE, info |-> node_info, nfail |-> 0, reqs |-> << >>]

\* the two sources that define bind_next_model and
\* configure_next_publication: the component's ble_mesh_auto_config.c and
\* the copy in part_007
COMPONENT == "ble_mesh_auto_config.c"
PART_007 == "part_007"
Builds == {COMPONENT, PART_007}

\* configure_next_publication of part_007
RECURSIVE configure_next_publication_part_007(_, _, _)
configure_next_publication_part_007(addr, node_info, F) ==
    IF node_info.next_model_to_pub < node_info.model_count
    THEN LET idx == node_info.next_model_to_pub
             model == node_info.models[idx]
             skip == [node_info EXCEPT !.next_model_to_pub = Inc8(@)]
         IN  IF model.pub_configured
             THEN configure_next_publication_part_007(addr, skip, F)
             ELSE IF ~model_supports_publication(model.model_id, model.company_id)
             THEN configure_next_publication_part_007(addr,
                      [skip EXCEPT !.models[idx].pub_configured = TRUE], F)
             ELSE IF idx \in F
             THEN LET r == configure_next_publication_part_007(addr, skip, F)
                  IN  [r EXCEPT !.nfail = @ + 1]
             ELSE [ret |-> TRUE, info |-> node_info, nfail |-> 0,
                   reqs |-> << Request("MODEL_PUB_SET", addr, node_info.unicast,
                                       model.model_id, model.company_id,
                                       1, 7, 0) >>]
    ELSE [ret |-> FALSE, info |-> node_info, nfail |-> 0, reqs |-> << >>]

(***************************************************************************)
(* Configuration client callback (ble_mesh_callbacks.c).                   *)
(* param: opcode, addr, error_code, composition_data, model_id, company_id *)
(* (the status fields the opcode carries).  fail: key (the AppKey Add      *)
(* submission is refused), bind, pub (model indices whose bind / publish   *)
(* submission is refused).  Result: nodes (the registry after the handler),*)
(* reqs (requests submitted, in order), ready (1 if the handler announced  *)
(* the node fully configured), nfail, branch (the case that ran).          *)
(***************************************************************************)
\* the entry with the first model matching (model_id, company_id) flagged
RECURSIVE MarkFirst(_, _, _, _, _)
MarkFirst(node_info, model_id, company_id, flag, i) ==
    IF i >= node_info.model_count THEN node_info
    ELSE IF /\ node_info.models[i].model_id = model_id
            /\ node_info.models[i].company_id = company_id
         THEN IF flag = "appkey_bound"
              THEN [node_info EXCEPT !.models[i].appkey_bound = TRUE]
              ELSE [node_info EXCEPT !.models[i].pub_configured = TRUE]
         ELSE MarkFirst(node_info, model_id, company_id, flag, i + 1)

Unhandled(nds, branch) ==
    [nodes |-> nds, reqs |-> << >>, ready |-> 0, nfail |-> 0, branch |-> branch]

\* the composition case leaving the publish cursor where it was
OnCompositionData_stale(nds, cnt, node_info, param, fail) ==
    LET addr == param.addr
        discovered == parse_composition_data(param.composition_data,
                                             MAX_DISCOVERED_MODELS)
        discovered_count == Len(discovered)
        info == [node_info EXCEPT
                    !.model_count = discovered_count,
                    !.models = [i \in ModelIdx |->
                        IF i < discovered_count
                        THEN [@[i] EXCEPT
                                 !.model_id = discovered[i + 1].model_id,
                                 !.company_id = discovered[i + 1].company_id,
                                 !.is_vendor = discovered[i + 1].is_vendor,
                                 !.appkey_bound = FALSE,
                                 !.pub_configured = FALSE]
                        ELSE @[i]],
                    !.composition_received = TRUE,
                    !.appkey_added = FALSE,
                    !.next_model_to_bind = 0]
    IN  [nodes |-> mesh_storage_update_node(nds, cnt, addr, info),
         reqs |-> IF fail.key THEN << >>
                  ELSE << Request("APP_KEY_ADD", addr, 0, 0, 0, 0, 0, 0) >>,
         ready |-> 0,
         nfail |-> IF fail.key THEN 1 ELSE 0,
         branch |-> "COMPOSITION_DATA_GET"]

\* the composition case leaving the flags of the models as they were
OnCompositionData_flagged(nds, cnt, node_info, param, fail) ==
    LET addr == param.addr
        discovered == parse_composition_data(param.composition_data,
                                             MAX_DISCOVERED_MODELS)
        discovered_count == Len(discovered)
        info == [node_info EXCEPT
                    !.model_count = discovered_count,
                    !.models = [i \in ModelIdx |->
                        IF i < discovered_count
                        THEN [@[i] EXCEPT
                                 !.model_id = discovered[i + 1].model_id,
                                 !.company_id = discovered[i + 1].company_id,
                                 !.is_vendor = discovered[i + 1].is_vendor]
                        ELSE @[i]],
                    !.composition_received = TRUE,
                    !.appkey_added = FALSE,
                    !.next_model_to_bind = 0,
                    !.next_model_to_pub = 0]
    IN  [nodes |-> mesh_storage_update_node(nds, cnt, addr, info),
         reqs |-> IF fail.key THEN << >>
                  ELSE << Request("APP_KEY_ADD", addr, 0, 0, 0, 0, 0, 0) >>,
         ready |-> 0,
         nfail |-> IF fail.key THEN 1 ELSE 0,
         branch |-> "COMPOSITION_DATA_GET"]

\* case GET_STATE_EVT, COMPOSITION_DATA_GET
OnCompositionData(nds, cnt, node_info, param, fail) ==
    LET addr == param.addr
        discovered == parse_composition_data(param.composition_data,
                                             MAX_DISCOVERED_MODELS)
        discovered_count == Len(discovered)
        info == [node_info EXCEPT
                    !.model_count = discovered_count,
                    !.models = [i \in ModelIdx |->
                        IF i < discovered_count
                        THEN [@[i] EXCEPT
                                 !.model_id = discovered[i + 1].model_id,
                                 !.company_id = discovered[i + 1].company_id,
                                 !.is_vendor = discovered[i + 1].is_vendor,
                                 !.appkey_bound = FALSE,
                                 !.pub_configured = FALSE]
                        ELSE @[i]],
                    !.composition_received = TRUE,
                    !.appkey_added = FALSE,
                    !.next_model_to_bind = 0,
                    !.next_model_to_pub = 0]
    IN  [nodes |-> mesh_storage_update_node(nds, cnt, addr, info),
         reqs |-> IF fail.key THEN << >>
                  ELSE << Request("APP_KEY_ADD", addr, 0, 0, 0, 0, 0, 0) >>,
         ready |-> 0,
         nfail |-> IF fail.key THEN 1 ELSE 0,
         branch |-> "COMPOSITION_DATA_GET"]

\* case SET_STATE_EVT, APP_KEY_ADD
OnAppKeyAdd(nds, cnt, node_info, param, fail) ==
    LET addr == param.addr
        info == [node_info EXCEPT !.appkey_added = TRUE]
        stored == mesh_storage_update_node(nds, cnt, addr, info)
        b == bind_next_model(addr, info, fail.bind)
    IN  [nodes |-> IF b.ret THEN mesh_storage_update_node(stored, cnt, addr, b.info)
                   ELSE stored,
         reqs |-> b.reqs, ready |-> 0, nfail |-> b.nfail,
         branch |-> "APP_KEY_ADD"]

\* case SET_STATE_EVT, MODEL_APP_BIND
OnModelAppBind(nds, cnt, node_info, param, fail) ==
    LET addr == param.addr
        marked == MarkFirst(node_info, param.model_id, param.company_id,
                            "appkey_bound", 0)
        info == [marked EXCEPT !.next_model_to_bind = Inc8(@)]
        stored == mesh_storage_update_node(nds, cnt, addr, info)
        b == bind_next_model(addr, info, fail.bind)
        p == configure_next_publication(addr, b.info, fail.pub)
    IN  IF b.ret
        THEN [nodes |-> mesh_storage_update_node(stored, cnt, addr, b.info),
              reqs |-> b.reqs, ready |-> 0, nfail |-> b.nfail,
              branch |-> "MODEL_APP_BIND"]
        ELSE IF p.ret
        THEN [nodes |-> mesh_storage_update_node(stored, cnt, addr, p.info),
              reqs |-> p.reqs, ready |-> 0, nfail |-> b.nfail + p.nfail,
              branch |-> "MODEL_APP_BIND"]
        ELSE [nodes |-> stored, reqs |-> << >>, ready |-> 1,
              nfail |-> b.nfail + p.nfail, branch |-> "MODEL_APP_BIND"]

\* case SET_STATE_EVT, MODEL_PUB_SET
OnModelPubSet(nds, cnt, node_info, param, fail) ==
    LET addr == param.addr
        marked == MarkFirst(node_info, param.model_id, param.company_id,
                            "pub_configured", 0)
        info == [marked EXCEPT !.next_model_to_pub = Inc8(@)]
        stored == mesh_storage_update_node(nds, cnt, addr, info)
        p == configure_next_publication(addr, info, fail.pub)
    IN  IF p.ret
        THEN [nodes |-> mesh_storage_update_node(stored, cnt, addr, p.info),
              reqs |-> p.reqs, ready |-> 0, nfail |-> p.nfail,
              branch |-> "MODEL_PUB_SET"]
        ELSE [nodes |-> stored, reqs |-> << >>, ready |-> 1,
              nfail |-> p.nfail, branch |-> "MODEL_PUB_SET"]

\* the callback without the test of the event's error code
mesh_config_client_cb_unchecked(nds, cnt, event, param, fail) ==
    LET got == mesh_storage_get_node(nds, cnt, param.addr)
    IN  IF got.err # "ESP_OK" THEN Unhandled(nds, "not_found")
        ELSE IF event = "GET_STATE_EVT"
        THEN IF param.opcode = "COMPOSITION_DATA_GET"
             THEN OnCompositionData(nds, cnt, got.info, param, fail)
             ELSE Unhandled(nds, "none")
        ELSE IF event = "SET_STATE_EVT"
        THEN IF param.opcode = "APP_KEY_ADD"
             THEN OnAppKeyAdd(nds, cnt, got.info, param, fail)
             ELSE IF param.opcode = "MODEL_APP_BIND"
             THEN OnModelAppBind(nds, cnt, got.info, param, fail)
             ELSE IF param.opcode = "MODEL_PUB_SET"
             THEN OnModelPubSet(nds, cnt, got.info, param, fail)
             ELSE Unhandled(nds, "none")
        ELSE IF event = "TIMEOUT_EVT" THEN Unhandled(nds, "timeout")
        ELSE Unhandled(nds, "none")

mesh_config_client_cb(nds, cnt, event, param, fail) ==
    LET got == mesh_storage_get_node(nds, cnt, param.addr)
    IN  IF param.error_code # 0 THEN Unhandled(nds, "error_code")
        ELSE IF got.err # "ESP_OK" THEN Unhandled(nds, "not_found")
        ELSE IF event = "GET_STATE_EVT"
        THEN IF param.opcode = "COMPOSITION_DATA_GET"
             THEN OnCompositionData(nds, cnt, got.info, param, fail)
             ELSE Unhandled(nds, "none")
        ELSE IF event = "SET_STATE_EVT"
        THEN IF param.opcode = "APP_KEY_ADD"
             THEN OnAppKeyAdd(nds, cnt, got.info, param, fail)
             ELSE IF param.opcode = "MODEL_APP_BIND"
             THEN OnModelAppBind(nds, cnt, got.info, param, fail)
             ELSE IF param.opcode = "MODEL_PUB_SET"
             THEN OnModelPubSet(nds, cnt, got.info, param, fail)
             ELSE Unhandled(nds, "none")
        ELSE IF event = "TIMEOUT_EVT" THEN Unhandled(nds, "timeout")
        ELSE Unhandled(nds, "none")

\* prov_complete that does not test what mesh_storage_add_node returned
prov_complete_unchecked(nds, cnt, uuid, unicast, elem_num, okName, okGet) ==
    LET a == mesh_storage_add_node(nds, cnt, uuid, unicast, elem_num, LED_OFF)
    IN  [err |-> "ESP_OK", nodes |-> a.nodes, node_count |-> a.node_count,
         stored |-> a.err = "ESP_OK",
         reqs |-> << Request("COMPOSITION_DATA_GET", unicast, 0, 0, 0, 0, 0, 0) >>]

(***************************************************************************)
(* Provisioning complete (ble_mesh_callbacks.c).  okName, okGet: whether   *)
(* the mesh stack accepts the node name and the composition data request.  *)
(* Result: err, the registry, stored (the node was stored), reqs.          *)
(***************************************************************************)
prov_complete(nds, cnt, uuid, unicast, elem_num, okName, okGet) ==
    LET a == mesh_storage_add_node(nds, cnt, uuid, unicast, elem_num, LED_OFF)
    IN  IF ~okName
        THEN [err |-> "ESP_FAIL", nodes |-> nds, node_count |-> cnt,
              stored |-> FALSE, reqs |-> << >>]
        ELSE IF a.err # "ESP_OK"
        THEN [err |-> "ESP_FAIL", nodes |-> nds, node_count |-> cnt,
              stored |-> FALSE, reqs |-> << >>]
        ELSE IF ~okGet
        THEN [err |-> "ESP_FAIL", nodes |-> a.nodes, node_count |-> a.node_count,
              stored |-> TRUE, reqs |-> << >>]
        ELSE [err |-> "ESP_OK", nodes |-> a.nodes, node_count |-> a.node_count,
              stored |-> TRUE,
              reqs |-> << Request("COMPOSITION_DATA_GET", unicast, 0, 0, 0, 0, 0, 0) >>]

(***************************************************************************)
(* Inputs: composition data (page 0) of the devices                        *)
(***************************************************************************)
RECURSIVE SigBytes(_)
SigBytes(ids) ==
    IF ids = << >> THEN << >>
    ELSE << Lo(Head(ids)), Hi(Head(ids)) >> \o SigBytes(Tail(ids))

RECURSIVE VndBytes(_)
VndBytes(pairs) ==
    IF pairs = << >> THEN << >>
    ELSE << Lo(Head(pairs)[1]), Hi(Head(pairs)[1]),
            Lo(Head(pairs)[2]), Hi(Head(pairs)[2]) >> \o VndBytes(Tail(pairs))

\* CID, PID, VID, CRPL, Features
Page0Header == << Lo(CID_ESP), Hi(CID_ESP), 0, 0, 0, 0, 10, 0, 3, 0 >>
\* Loc, NumS, NumV, SIG model ids, vendor (company id, model id) pairs
Element(sig, vnd) == << 0, 0, Len(sig), Len(vnd) >> \o SigBytes(sig) \o VndBytes(vnd)

\* OnOff server, sensor client and the vendor server model
CompE2E == Page0Header \o Element(<< 4096, 4354 >>, << << CID_ESP, VENDOR_MODEL_ID_SERVER >> >>)
\* configuration server first, then OnOff server and the vendor server model
CompCfgFirst == Page0Header \o Element(<< 0, 4096 >>, << << CID_ESP, VENDOR_MODEL_ID_SERVER >> >>)
\* configuration server and client only: nothing to bind
CompCfgOnly == Page0Header \o Element(<< 0, 1 >>, << >>)
\* no element at all
CompEmpty == Page0Header
\* vendor models whose ids are 0 and 1
CompVndIds == Page0Header \o Element(<< >>, << << CID_ESP, VENDOR_MODEL_ID_CLIENT >>,
                                              << CID_ESP, VENDOR_MODEL_ID_SERVER >> >>)
\* OnOff client only: bound, never published
CompClient == Page0Header \o Element(<< 4097 >>, << >>)
\* two elements, each with an OnOff server
CompTwoElem == Page0Header \o Element(<< 4096 >>, << >>) \o Element(<< 4096 >>, << >>)

CompBufs == {CompE2E, CompCfgFirst, CompCfgOnly, CompEmpty, CompVndIds,
             CompClient, CompTwoElem}

ElemNums == {1}

(***************************************************************************)
(* Sensor client callback (mesh_sensor_client_cb): decoding of the         *)
(* marshalled sensor data of a Sensor Status message                       *)
(***************************************************************************)
\* the two's-complement value of the byte b; the most significant byte of a
\* little-endian int16_t or int32_t carries the sign
Signed8(b) == IF b >= 128 THEN b - 256 ELSE b

\* what one call of the callback writes to the log and hands on: the raw
\* buffer it dumped, the header format it found ("A", "B" or "none"), the
\* decoded property id and data length, the calls of
\* provisioner_sensor_msg_handler, and how many bytes from the start of the
\* buffer it read
SensorLog(raw, format, property_id, data_length, calls, read) ==
    [raw |-> raw, format |-> format, property_id |-> property_id,
     data_length |-> data_length, calls |-> calls, read |-> read]

NoSensorLog == SensorLog(<< >>, "none", 0, 0, << >>, 0)

\* Format A decoding that follows the drawing in the comment above the
\* code: length in the low nibble of byte 0, property id in its high nibble
\* and in the low seven bits of byte 1
MpidFormatA_nibbles(data0, data1) ==
    LET length_field == data0 % 16
    IN  [property_id |-> (data0 \div 16) + 16 * (data1 % 128),
         data_length |-> IF length_field = 15 THEN 0 ELSE length_field + 1]

\* Format B decoding that reads the property id high byte first
MpidFormatB_be(data0, data1, data2) ==
    LET length_field == (data0 \div 2) % 128
    IN  [property_id |-> (data1 * 256 + data2) % 65536,
         data_length |-> IF length_field = 127 THEN 0 ELSE length_field]

\* Format A: uint16_t mpid = (buf->data[1] << 8) | buf->data[0];
\* length_field = (mpid >> 1) & 0x0F; property_id = (mpid >> 5) & 0x7FF;
\* data_length = (length_field == 0x0F) ? 0 : (length_field + 1)
MpidFormatA(data0, data1) ==
    LET mpid == (data1 * 256 + data0) % 65536
        length_field == (mpid \div 2) % 16
    IN  [property_id |-> (mpid \div 32) % 2048,
         data_length |-> IF length_field = 15 THEN 0 ELSE length_field + 1]

\* Format B: length_field = (format_byte >> 1) & 0x7F;
\* property_id = (buf->data[2] << 8) | buf->data[1];
\* data_length = (length_field == 0x7F) ? 0 : length_field
MpidFormatB(data0, data1, data2) ==
    LET length_field == (data0 \div 2) % 128
    IN  [property_id |-> (data2 * 256 + data1) % 65536,
         data_length |-> IF length_field = 127 THEN 0 ELSE length_field]

\* value extraction that hands on a value for every length up to four
\* bytes, three included
SensorValueCalls_anylen(addr, property_id, data_length, buf) ==
    IF data_length > 0 /\ data_length <= 4 /\ Len(buf) >= data_length
    THEN << [src_addr |-> addr, property_id |-> property_id,
             value |-> Signed8(buf[data_length])] >>
    ELSE << >>

\* value extraction that does not compare the length with the bytes left
\* and takes the bytes that are missing as zero
SensorValueCalls_padded(addr, property_id, data_length, buf) ==
    IF data_length \in {1, 2, 4}
    THEN << [src_addr |-> addr, property_id |-> property_id,
             value |-> IF Len(buf) >= 1 THEN buf[1] % 128 ELSE 0] >>
    ELSE << >>

\* the value read after the header and the handler call made with it;
\* buf is the buffer after the header was pulled
SensorValueCalls(addr, property_id, data_length, buf) ==
    IF data_length > 0 /\ Len(buf) >= data_length
    THEN IF data_length = 4
         THEN << [src_addr |-> addr, property_id |-> property_id,
                  value |-> buf[1] + 256 * buf[2] + 65536 * buf[3]
                            + 16777216 * Signed8(buf[4])] >>
         ELSE IF data_length = 2
         THEN << [src_addr |-> addr, property_id |-> property_id,
                  value |-> buf[1] + 256 * Signed8(buf[2])] >>
         ELSE IF data_length = 1
         THEN << [src_addr |-> addr, property_id |-> property_id,
                  value |-> Signed8(buf[1])] >>
         ELSE << >>
    ELSE << >>

\* the bytes of buf the value extraction touches: the value it pulls, or
\* the data_length bytes it dumps for an unsupported length
SensorValueRead(data_length, buf) ==
    IF data_length > 0 /\ Len(buf) >= data_length THEN data_length ELSE 0

mesh_sensor_client_cb(event, opcode, error_code, addr, data) ==
    IF error_code # 0 THEN NoSensorLog
    ELSE IF event # "PUBLISH_EVT" \/ opcode # "SENSOR_STATUS" THEN NoSensorLog
    ELSE IF Len(data) < 1 THEN NoSensorLog
    ELSE IF data[1] % 2 = 0
    THEN IF Len(data) >= 2
         THEN LET h == MpidFormatA(data[1], data[2])
                  buf == Pull(data, 2)
                  end == 2 + SensorValueRead(h.data_length, buf)
              IN  SensorLog(data, "A", h.property_id, h.data_length,
                            SensorValueCalls(addr, h.property_id,
                                             h.data_length, buf),
                            IF end > Len(data) THEN end ELSE Len(data))
         ELSE SensorLog(data, "none", 0, 0, << >>, Len(data))
    ELSE IF Len(data) >= 3
         THEN LET h == MpidFormatB(data[1], data[2], data[3])
                  buf == Pull(data, 3)
                  end == 3 + SensorValueRead(h.data_length, buf)
              IN  SensorLog(data, "B", h.property_id, h.data_length,
                            SensorValueCalls(addr, h.property_id,
                                             h.data_length, buf),
                            IF end > Len(data) THEN end ELSE Len(data))
         ELSE SensorLog(data, "none", 0, 0, << >>, Len(data))

\* a sensor client event as the mesh stack delivers it
SensorEvent(event, opcode, error_code, addr, data) ==
    [event |-> event, opcode |-> opcode, error_code |-> error_code,
     addr |-> addr, data |-> data]

NoSensorEvent == SensorEvent("none", "none", 0, 0, << >>)

\* marshalled sensor data: every first byte with a choice of second and
\* third header bytes and of value bytes, and buffers shorter than a header
SensorBufs ==
    LET EvenBytes == {2 * n : n \in 0 .. 127}
        OddBytes == {2 * n + 1 : n \in 0 .. 127}
        SecondBytes == {0, 2, 9, 128, 255}
        PropertyBytes == {<< 1, 80 >>, << 255, 255 >>, << 0, 8 >>, << 55, 42 >>}
        ValueBytes == {<< >>, << 80, 0, 0, 0 >>, << 255, 255 >>, << 128 >>,
                       << 254, 255, 255, 255 >>, << 7, 8, 9 >>,
                       << 1, 2, 3, 4, 5 >>}
    IN  {<< b0, b1 >> \o v :
             b0 \in EvenBytes, b1 \in SecondBytes, v \in ValueBytes}
        \cup {<< b0 >> \o p \o v :
                  b0 \in OddBytes, p \in PropertyBytes, v \in ValueBytes}
        \cup {<< >>, << 114 >>, << 9 >>, << 9, 1 >>}

SensorEvents ==
    {SensorEvent("PUBLISH_EVT", "SENSOR_STATUS", 0, 5, d) : d \in SensorBufs}
    \cup {SensorEvent("PUBLISH_EVT", "SENSOR_STATUS", 1, 5, << 114, 2 >>),
          SensorEvent("TIMEOUT_EVT", "SENSOR_GET", 0, 5, << >>),
          SensorEvent("GET_STATE_EVT", "SENSOR_STATUS", 0, 5, << 9, 1, 80 >>),
          SensorEvent("PUBLISH_EVT", "SENSOR_COLUMN_STATUS", 0, 5, << 114, 2 >>)}

(***************************************************************************)
(* Mesh-MQTT bridge (mesh_mqtt_bridge.c) and the vendor client callback    *)
(* (mesh_vendor_client_cb).  Texts are sequences of one-character strings. *)
(***************************************************************************)
VENDOR_OP_IMU_DATA == 12582913
VENDOR_MODEL_OP_IMU_DATA == 12582913
SENSOR_PROPERTY_HEART_RATE == 10807

\* sizeof(topic): char topic[64]
TOPIC_SIZE == 64

HexDigits == << "0", "1", "2", "3", "4", "5", "6", "7", "8", "9", "a", "b",
                "c", "d", "e", "f" >>

\* "0x%04x" of a uint16_t
Hex4(x) ==
    << "0", "x", HexDigits[((x \div 4096) % 16) + 1],
       HexDigits[((x \div 256) % 16) + 1], HexDigits[((x \div 16) % 16) + 1],
       HexDigits[(x % 16) + 1] >>

\* snprintf(buf, size, ...): at most size - 1 characters of the text
Snprintf(size, text) ==
    IF Len(text) <= size - 1 THEN text ELSE SubSeq(text, 1, size - 1)

\* snprintf(topic, sizeof(topic), "%s/<type>/0x%04x", prefix, src_addr)
Topic(prefix, type, src_addr) ==
    Snprintf(TOPIC_SIZE, prefix \o << "/" >> \o type \o << "/" >> \o Hex4(src_addr))

\* "%.1f" of (int8_t a) * 0.1f: sign, integer part and the one decimal
\* (the float product is within 1e-5 of a / 10)
FormatTenths(a) ==
    LET m == IF a < 0 THEN 0 - a ELSE a
    IN  [neg |-> a < 0, whole |-> m \div 10, tenth |-> m % 10]

\* the IMU record with the six fields read as unsigned bytes
ImuDecode_unsigned(data) ==
    [time |-> data[1] + 256 * data[2],
     accel |-> << FormatTenths(data[3]), FormatTenths(data[4]),
                  FormatTenths(data[5]) >>,
     gyro |-> << data[6] * 10, data[7] * 10, data[8] * 10 >>]

\* imu_compact_msg_t read from 8 bytes: uint16_t timestamp_ms, then six
\* int8_t; accel * 0.1f and gyro * 10
ImuDecode(data) ==
    [time |-> data[1] + 256 * data[2],
     accel |-> << FormatTenths(Signed8(data[3])), FormatTenths(Signed8(data[4])),
                  FormatTenths(Signed8(data[5])) >>,
     gyro |-> << Signed8(data[6]) * 10, Signed8(data[7]) * 10,
                 Signed8(data[8]) * 10 >>]

\* one call of wifi_mqtt_publish(topic, payload, 0)
Publish(topic, payload) == [topic |-> topic, payload |-> payload]

\* handle_imu_message that accepts every payload of at least 8 bytes
handle_imu_message_atleast(prefix, src_addr, data, length) ==
    IF length < 8 THEN << >>
    ELSE LET imu == ImuDecode(data)
         IN  << Publish(Topic(prefix, << "i", "m", "u" >>, src_addr),
                        [node |-> Hex4(src_addr), time |-> imu.time,
                         accel |-> imu.accel, gyro |-> imu.gyro]) >>

\* handle_imu_message: the wifi_mqtt_publish calls it makes
handle_imu_message(prefix, src_addr, data, length) ==
    IF length # 8 THEN << >>
    ELSE LET imu == ImuDecode(data)
         IN  << Publish(Topic(prefix, << "i", "m", "u" >>, src_addr),
                        [node |-> Hex4(src_addr), time |-> imu.time,
                         accel |-> imu.accel, gyro |-> imu.gyro]) >>

\* handle_heartrate_message: the wifi_mqtt_publish calls it makes
handle_heartrate_message(prefix, src_addr, heart_rate, timestamp_ms) ==
    << Publish(Topic(prefix, << "h", "e", "a", "r", "t", "r", "a", "t", "e" >>,
                     src_addr),
               [node |-> Hex4(src_addr), heartrate |-> heart_rate,
                timestamp |-> timestamp_ms]) >>

\* message_router[]
message_router == << [opcode |-> VENDOR_OP_IMU_DATA, name |-> "IMU Data"] >>

\* the bridge as linked into the firmware: whether mesh_mqtt_bridge.c
\* overrides the weak handlers, g_bridge_initialized and
\* g_bridge_config.mqtt_topic_prefix
Bridge(linked, initialized, prefix) ==
    [linked |-> linked, g_bridge_initialized |-> initialized,
     mqtt_topic_prefix |-> prefix]

NoBridge == Bridge(FALSE, FALSE, << >>)

\* topic prefixes: the one of the firmware, and the longest one with which
\* "<prefix>/imu/0x<addr>" fits into topic[]
MeshPrefix == << "m", "e", "s", "h" >>
LongPrefix == [i \in 1 .. (TOPIC_SIZE - 12) |-> "p"]

\* (uint32_t)(esp_timer_get_time() / 1000) at the time of a call
Times == {0, 5000}

\* a bridge handler that routes before mesh_mqtt_bridge_init has run
provisioner_vendor_msg_handler_uninit(b, src_addr, opcode, data, length) ==
    IF ~b.linked THEN << >>
    ELSE IF \E i \in 1 .. Len(message_router) : message_router[i].opcode = opcode
    THEN handle_imu_message(MeshPrefix, src_addr, data, length)
    ELSE << >>

\* provisioner_vendor_msg_handler: the weak default, or the bridge's
provisioner_vendor_msg_handler(b, src_addr, opcode, data, length) ==
    IF ~b.linked THEN << >>
    ELSE IF ~b.g_bridge_initialized THEN << >>
    ELSE IF \E i \in 1 .. Len(message_router) : message_router[i].opcode = opcode
    THEN handle_imu_message(b.mqtt_topic_prefix, src_addr, data, length)
    ELSE << >>

\* provisioner_sensor_msg_handler: the weak default, or the bridge's
provisioner_sensor_msg_handler(b, src_addr, property_id, value, timestamp_ms) ==
    IF ~b.linked THEN << >>
    ELSE IF ~b.g_bridge_initialized THEN << >>
    ELSE IF property_id = SENSOR_PROPERTY_HEART_RATE
    THEN handle_heartrate_message(b.mqtt_topic_prefix, src_addr, value,
                                  timestamp_ms)
    ELSE << >>

RECURSIVE SensorPublishes(_, _, _)
\* the publishes of the provisioner_sensor_msg_handler calls of one
\* mesh_sensor_client_cb call
SensorPublishes(b, calls, timestamp_ms) ==
    IF calls = << >> THEN << >>
    ELSE provisioner_sensor_msg_handler(b, calls[1].src_addr,
                                        calls[1].property_id, calls[1].value,
                                        timestamp_ms)
         \o SensorPublishes(b, Tail(calls), timestamp_ms)

\* the argument of mesh_mqtt_bridge_init: a null pointer, or a
\* bridge_config_t whose mqtt_topic_prefix is a null pointer or a text
BridgeConfig(is_null, prefix_is_null, prefix) ==
    [is_null |-> is_null, prefix_is_null |-> prefix_is_null,
     mqtt_topic_prefix |-> prefix]

mesh_mqtt_bridge_init(b, config) ==
    IF config.is_null THEN [err |-> "ESP_ERR_INVALID_ARG", bridge |-> b]
    ELSE IF config.prefix_is_null
    THEN [err |-> "ESP_ERR_INVALID_ARG", bridge |-> b]
    ELSE [err |-> "ESP_OK",
          bridge |-> Bridge(b.linked, TRUE, config.mqtt_topic_prefix)]

\* what one call of mesh_vendor_client_cb logs and hands on: the event it
\* was given, whether provisioner_vendor_msg_handler was called, whether it
\* logged an IMU record, and that record
VendorLog(msg, handed, logged, imu) ==
    [msg |-> msg, handed |-> handed, logged |-> logged, imu |-> imu]

\* no record logged
NoImu == ImuDecode(<< 0, 0, 0, 0, 0, 0, 0, 0 >>)

VendorEvent(event, opcode, addr, data) ==
    [event |-> event, opcode |-> opcode, addr |-> addr, data |-> data]

NoVendorEvent == VendorEvent("none", 0, 0, << >>)

NoVendorLog == VendorLog(NoVendorEvent, FALSE, FALSE, NoImu)

\* mesh_vendor_client_cb: its log and the publishes of the handler it calls
mesh_vendor_client_cb(b, msg) ==
    IF msg.event = "MODEL_OPERATION_EVT"
    THEN LET length == Len(msg.data)
             imu == msg.opcode = VENDOR_MODEL_OP_IMU_DATA /\ length = 8
         IN  [log |-> VendorLog(msg, TRUE, imu,
                                IF imu THEN ImuDecode(msg.data) ELSE NoImu),
              mqtt |-> provisioner_vendor_msg_handler(b, msg.addr, msg.opcode,
                                                      msg.data, length)]
    ELSE [log |-> VendorLog(msg, FALSE, FALSE, NoImu), mqtt |-> << >>]

(***************************************************************************)
(* State                                                                   *)
\* a buffer argument of parse_composition_data: absent (a null pointer) or
\* the bytes data; when encoded, data is the first bytes of the composition
\* data page whose elements declare the models elems
CompData(absent, data, encoded, elems) ==
    [absent |-> absent, data |-> data, encoded |-> encoded, elems |-> elems]

NoCompData == CompData(TRUE, << >>, FALSE, << >>)

\* the return of a parse_composition_data call
ParseOut(called, models, pulled) ==
    [called |-> called, models |-> models, pulled |-> pulled]

NoParse == ParseOut(FALSE, << >>, 0)

\* the WiFi state of wifi_mqtt.c.  initialized: wifi_mqtt_init has stored a
\* configuration; requested: the max_wifi_retry the caller passed;
\* max_wifi_retry, auto_reconnect: s_config; connected: s_wifi_connected;
\* retry_count: s_wifi_retry_count; connect: the last handler called
\* esp_wifi_connect; disconnects: the disconnected events since the last
\* address was obtained
Wifi(initialized, requested, max_retry, auto, connected, retry_count, connect, n) ==
    [initialized |-> initialized, requested |-> requested,
     max_wifi_retry |-> max_retry, auto_reconnect |-> auto,
     s_wifi_connected |-> connected, s_wifi_retry_count |-> retry_count,
     connect |-> connect, disconnects |-> n]

\* static wifi_mqtt_config_t s_config = {0} and the other statics
NoWifi == Wifi(FALSE, 0, 0, FALSE, FALSE, 0, FALSE, 0)

\* wifi_mqtt_init(config): the configuration is stored, max_wifi_retry 0 is
\* replaced by 5 and auto_reconnect is set
wifi_mqtt_init(w, config) ==
    IF config.is_null THEN [err |-> "ESP_ERR_INVALID_ARG", wifi |-> w]
    ELSE IF ~config.has_ssid \/ ~config.has_broker_uri
    THEN [err |-> "ESP_ERR_INVALID_ARG", wifi |-> w]
    ELSE [err |-> "ESP_OK",
          wifi |-> [w EXCEPT
                       !.initialized = TRUE,
                       !.requested = config.max_wifi_retry,
                       !.max_wifi_retry = IF config.max_wifi_retry = 0
                                          THEN DEFAULT_WIFI_RETRY
                                          ELSE config.max_wifi_retry,
                       !.auto_reconnect = TRUE]]

\* wifi_event_handler(event_base, event_id)
wifi_event_handler(w, event_base, event_id) ==
    IF event_base = "WIFI_EVENT"
    THEN IF event_id = "STA_START" THEN [w EXCEPT !.connect = TRUE]
         ELSE IF event_id = "STA_DISCONNECTED"
         THEN IF w.auto_reconnect
              THEN IF w.max_wifi_retry = 0
                      \/ w.s_wifi_retry_count < w.max_wifi_retry
                   THEN [w EXCEPT !.s_wifi_connected = FALSE,
                                  !.s_wifi_retry_count = Inc8(@),
                                  !.connect = TRUE]
                   ELSE [w EXCEPT !.s_wifi_connected = FALSE,
                                  !.connect = FALSE]
              ELSE [w EXCEPT !.s_wifi_connected = FALSE, !.connect = FALSE]
         ELSE [w EXCEPT !.connect = FALSE]
    ELSE IF event_base = "IP_EVENT" /\ event_id = "STA_GOT_IP"
    THEN [w EXCEPT !.s_wifi_connected = TRUE, !.s_wifi_retry_count = 0,
                   !.connect = FALSE]
    ELSE [w EXCEPT !.connect = FALSE]

(***************************************************************************)
VARIABLES
    nodes,        \* static mesh_node_info_t nodes[MESH_STORAGE_MAX_NODES]
    node_count,   \* static uint16_t node_count
    inflight,     \* bag of the requests submitted and not yet answered
    sent,         \* per address: requests submitted and READY announcements
                  \* since the node was provisioned at that address or its
                  \* composition data was last handled
    provs,        \* provisioning-complete events delivered
    strays,       \* unsolicited events delivered
    fails,        \* submissions refused
    hist,         \* per device: the events handled for it, in order
    sensor_msg,   \* the sensor client event awaiting mesh_sensor_client_cb
    sensor_log,   \* what the last call of mesh_sensor_client_cb produced
    bridge,       \* the Mesh-MQTT bridge: linked, initialized, topic prefix
    vendor_msg,   \* the vendor model event awaiting mesh_vendor_client_cb
    vendor_log,   \* what the last call of mesh_vendor_client_cb produced
    mqtt,         \* the wifi_mqtt_publish calls made by the last call of
                  \* mesh_sensor_client_cb or mesh_vendor_client_cb
    comp_data,    \* the buffer argument of a parse_composition_data call
    parse_out,    \* what that call returned
    wifi,         \* the WiFi side of wifi_mqtt.c: s_config, s_wifi_connected,
                  \* s_wifi_retry_count, and what the last handler did
    build         \* which of the two sources that define the configuration
                  \* steps the firmware is linked with

vars == << nodes, node_count, inflight, sent, provs, strays, fails, hist,
           sensor_msg, sensor_log, bridge, vendor_msg, vendor_log, mqtt,
           comp_data, parse_out, wifi, build >>

\* the state of a direct call of the parser
parsing == << comp_data, parse_out >>

\* the state of the telemetry path
telemetry == << sensor_msg, sensor_log, bridge, vendor_msg, vendor_log, mqtt >>

RECURSIVE SeqToBag(_)
SeqToBag(q) == IF q = << >> THEN EmptyBag ELSE SetToBag({Head(q)}) (+) SeqToBag(Tail(q))

RECURSIVE Readies(_, _)
Readies(addr, n) == IF n = 0 THEN << >> ELSE << ReadyEvent(addr) >> \o Readies(addr, n - 1)

NoFail == [key |-> FALSE, bind |-> {}, pub |-> {}]

\* the refusals the mesh stack may answer with when an event for addr is handled
FailChoices(addr) ==
    LET got == mesh_storage_get_node(nodes, node_count, addr)
        idx == 0 .. (got.info.model_count - 1)
    IN  {f \in [key : BOOLEAN, bind : SUBSET idx, pub : SUBSET idx] :
            (IF f.key THEN 1 ELSE 0) + Cardinality(f.bind) + Cardinality(f.pub)
                <= MaxFail - fails}

Param(opcode, addr, error_code, composition_data, model_id, company_id) ==
    [opcode |-> opcode, addr |-> addr, error_code |-> error_code,
     composition_data |-> composition_data,
     model_id |-> model_id, company_id |-> company_id]

\* mesh_storage_init()
Init ==
    /\ nodes = [i \in NodeIdx |-> ZeroNode]
    /\ node_count = 0
    /\ inflight = EmptyBag
    /\ sent = [a \in Addrs |-> << >>]
    /\ provs = 0
    /\ strays = 0
    /\ fails = 0
    /\ hist = [u \in UUIDs |-> << >>]
    /\ sensor_msg = NoSensorEvent
    /\ sensor_log = NoSensorLog
    /\ bridge = NoBridge
    /\ vendor_msg = NoVendorEvent
    /\ vendor_log = NoVendorLog
    /\ mqtt = << >>
    /\ comp_data = NoCompData
    /\ parse_out = NoParse
    /\ wifi = NoWifi
    /\ build = COMPONENT

NumRefusals(fail) ==
    (IF fail.key THEN 1 ELSE 0) + Cardinality(fail.bind) + Cardinality(fail.pub)

\* the events recorded in hist
CfgEvent(event, param, fail) ==
    [kind |-> "cfg", event |-> event, param |-> param, fail |-> fail,
     uuid |-> "", elem_num |-> 0]
ProvEvent(uuid, unicast, elem_num, okGet) ==
    [kind |-> "prov", event |-> "", param |-> Param("", unicast, 0, << >>, 0, 0),
     fail |-> [NoFail EXCEPT !.key = ~okGet], uuid |-> uuid, elem_num |-> elem_num]

\* the cases of the callback that touch the node
Handled == {"COMPOSITION_DATA_GET", "APP_KEY_ADD", "MODEL_APP_BIND", "MODEL_PUB_SET"}

\* the trace of an address after the callback returned r for an event to it
TraceAfter(s, addr, r) ==
    (IF r.branch = "COMPOSITION_DATA_GET" THEN << >> ELSE s)
        \o r.reqs \o Readies(addr, r.ready)

\* the event is dispatched to mesh_config_client_cb; answered is the bag of
\* requests it answers.  Every refusal chosen is one the handler meets.
Dispatch(event, param, fail, answered) ==
    LET r == mesh_config_client_cb(nodes, node_count, event, param, fail)
        k == SlotOf(nodes, node_count, param.addr)
    IN  /\ r.nfail = NumRefusals(fail)
        /\ fails + r.nfail <= MaxFail
        /\ nodes' = r.nodes
        /\ inflight' = (inflight (-) answered) (+) SeqToBag(r.reqs)
        /\ sent' = [sent EXCEPT ![param.addr] = TraceAfter(@, param.addr, r)]
        /\ fails' = fails + r.nfail
        /\ hist' = IF r.branch \in Handled
                   THEN [hist EXCEPT ![nodes[k].uuid] =
                            Append(@, CfgEvent(event, param, fail))]
                   ELSE hist
        /\ UNCHANGED << node_count, telemetry, parsing, wifi, build >>

\* the mesh stack gives every node its own unicast address
AddressFree(uuid, unicast) ==
    \A i \in 0 .. (node_count - 1) :
        nodes[i].unicast = unicast => nodes[i].uuid = uuid

\* no request to the device is pending: neither to the address it has nor to
\* the one it gets
Settled(uuid, unicast) ==
    \A r \in BagToSet(inflight) :
        /\ r.addr # unicast
        /\ \A i \in 0 .. (node_count - 1) :
               nodes[i].uuid = uuid => r.addr # nodes[i].unicast

Provision(uuid, unicast, elem_num, okName, okGet) ==
    LET r == prov_complete(nodes, node_count, uuid, unicast, elem_num, okName, okGet)
    IN  /\ AddressFree(uuid, unicast)
        /\ nodes' = r.nodes
        /\ node_count' = r.node_count
        /\ inflight' = inflight (+) SeqToBag(r.reqs)
        /\ sent' = [sent EXCEPT ![unicast] = IF r.stored THEN << >> ELSE @]
        /\ hist' = IF r.stored
                   THEN [hist EXCEPT ![uuid] =
                            Append(@, ProvEvent(uuid, unicast, elem_num, okGet))]
                   ELSE hist
        /\ provs' = provs + 1
        /\ UNCHANGED << strays, telemetry, parsing, wifi, build >>

(***************************************************************************)
(* Reliable delivery: a device is provisioned again only once its requests *)
(* are answered, every request is accepted and answered exactly once.      *)
(***************************************************************************)
ProvComplete ==
    \E uuid \in UUIDs, unicast \in Addrs, elem_num \in ElemNums :
        /\ provs < MaxProv
        /\ Settled(uuid, unicast)
        /\ Provision(uuid, unicast, elem_num, TRUE, TRUE)
        /\ UNCHANGED fails

CompositionDataStatus ==
    \E r \in BagToSet(inflight), buf \in CompBufs :
        /\ r.opcode = "COMPOSITION_DATA_GET"
        /\ Dispatch("GET_STATE_EVT",
                    Param(r.opcode, r.addr, 0, buf, 0, 0), NoFail, SetToBag({r}))
        /\ UNCHANGED << provs, strays >>

AppKeyStatus ==
    \E r \in BagToSet(inflight) :
        /\ r.opcode = "APP_KEY_ADD"
        /\ Dispatch("SET_STATE_EVT",
                    Param(r.opcode, r.addr, 0, << >>, 0, 0), NoFail, SetToBag({r}))
        /\ UNCHANGED << provs, strays >>

ModelAppStatus ==
    \E r \in BagToSet(inflight) :
        /\ r.opcode = "MODEL_APP_BIND"
        /\ Dispatch("SET_STATE_EVT",
                    Param(r.opcode, r.addr, 0, << >>, r.model_id, r.company_id),
                    NoFail, SetToBag({r}))
        /\ UNCHANGED << provs, strays >>

ModelPubStatus ==
    \E r \in BagToSet(inflight) :
        /\ r.opcode = "MODEL_PUB_SET"
        /\ Dispatch("SET_STATE_EVT",
                    Param(r.opcode, r.addr, 0, << >>, r.model_id, r.company_id),
                    NoFail, SetToBag({r}))
        /\ UNCHANGED << provs, strays >>

Next ==
    \/ ProvComplete
    \/ CompositionDataStatus
    \/ AppKeyStatus
    \/ ModelAppStatus
    \/ ModelPubStatus

Spec == Init /\ [][Next]_vars

(***************************************************************************)
(* Delivery with refusals: as above, but the mesh stack may refuse a       *)
(* submission, a request may time out, and a send may fail after it was    *)
(* accepted (the event then carries an error code).                        *)
(***************************************************************************)
StatusEvent(opcode) ==
    IF opcode = "COMPOSITION_DATA_GET" THEN "GET_STATE_EVT" ELSE "SET_STATE_EVT"

\* the event that answers request r
Answer(r, buf, fail) ==
    Dispatch(StatusEvent(r.opcode),
             Param(r.opcode, r.addr, 0, buf, r.model_id, r.company_id),
             fail, SetToBag({r}))

ProvRefusals == {<< TRUE, TRUE >>, << FALSE, TRUE >>, << TRUE, FALSE >>}

ProvCompleteF ==
    \E uuid \in UUIDs, unicast \in Addrs, elem_num \in ElemNums, ok \in ProvRefusals :
        LET n == IF ok = << TRUE, TRUE >> THEN 0 ELSE 1
        IN  /\ provs < MaxProv
            /\ Settled(uuid, unicast)
            /\ fails + n <= MaxFail
            /\ Provision(uuid, unicast, elem_num, ok[1], ok[2])
            /\ fails' = fails + n

CompositionDataStatusF ==
    \E r \in BagToSet(inflight), buf \in CompBufs, key \in BOOLEAN :
        /\ r.opcode = "COMPOSITION_DATA_GET"
        /\ Answer(r, buf, [NoFail EXCEPT !.key = key])
        /\ UNCHANGED << provs, strays >>

ConfigStatusF ==
    \E r \in BagToSet(inflight) :
        /\ r.opcode \in {"APP_KEY_ADD", "MODEL_APP_BIND", "MODEL_PUB_SET"}
        /\ \E fail \in FailChoices(r.addr) :
               /\ ~fail.key
               /\ Answer(r, << >>, fail)
        /\ UNCHANGED << provs, strays >>

Timeout ==
    \E r \in BagToSet(inflight) :
        /\ Dispatch("TIMEOUT_EVT", Param(r.opcode, r.addr, 0, << >>, 0, 0),
                    NoFail, SetToBag({r}))
        /\ UNCHANGED << provs, strays >>

SendError ==
    \E r \in BagToSet(inflight) :
        /\ Dispatch(StatusEvent(r.opcode), Param(r.opcode, r.addr, 1, << >>, 0, 0),
                    NoFail, SetToBag({r}))
        /\ UNCHANGED << provs, strays >>

NextFail ==
    \/ ProvCompleteF
    \/ CompositionDataStatusF
    \/ ConfigStatusF
    \/ Timeout
    \/ SendError

SpecFail == Init /\ [][NextFail]_vars

(***************************************************************************)
(* Any delivery: the reliable deliveries, and in addition events that      *)
(* answer no pending request (repeated or out-of-phase acknowledgments).   *)
(***************************************************************************)
\* the (model id, company id) pairs an unsolicited status may carry
StatusModels == {Sig(4096), Vnd(CID_ESP, VENDOR_MODEL_ID_SERVER)}

Unsolicited ==
    /\ strays < MaxStray
    /\ strays' = strays + 1
    /\ UNCHANGED provs
    /\ \E a \in Addrs :
           \/ Dispatch("SET_STATE_EVT", Param("APP_KEY_ADD", a, 0, << >>, 0, 0),
                       NoFail, EmptyBag)
           \/ \E op \in {"MODEL_APP_BIND", "MODEL_PUB_SET"}, m \in StatusModels :
                  Dispatch("SET_STATE_EVT",
                           Param(op, a, 0, << >>, m.model_id, m.company_id),
                           NoFail, EmptyBag)

\* the composition data delivered under any delivery
AnyBufs == {CompE2E, CompCfgFirst}

CompositionDataStatusAny ==
    \E r \in BagToSet(inflight), buf \in AnyBufs :
        /\ r.opcode = "COMPOSITION_DATA_GET"
        /\ Answer(r, buf, NoFail)
        /\ UNCHANGED << provs, strays >>

ProvCompleteAny ==
    \E uuid \in UUIDs, unicast \in Addrs, elem_num \in ElemNums :
        /\ provs < MaxProvAny
        /\ Provision(uuid, unicast, elem_num, TRUE, TRUE)
        /\ UNCHANGED fails

NextAny ==
    \/ ProvCompleteAny
    \/ CompositionDataStatusAny
    \/ AppKeyStatus
    \/ ModelAppStatus
    \/ ModelPubStatus
    \/ Unsolicited

SpecAny == Init /\ [][NextAny]_vars

(***************************************************************************)
(* Observations used by the properties                                     *)
(***************************************************************************)
Known(a) == SlotOf(nodes, node_count, a) >= 0
Entry(a) == nodes[SlotOf(nodes, node_count, a)]

\* the requests to address a that are submitted and not yet answered
Pending(a) == {r \in BagToSet(inflight) : r.addr = a}
NumPending(a, ops) ==
    LET rs == {r \in Pending(a) : r.opcode \in ops}
        n[S \in SUBSET rs] ==
            IF S = {} THEN 0
            ELSE LET r == CHOOSE x \in S : TRUE
                 IN  CopiesIn(r, inflight) + n[S \ {r}]
    IN  n[rs]
Idle(a) == Pending(a) = {}

Count(s, op) == Cardinality({i \in 1 .. Len(s) : s[i].opcode = op})
ConfigOps == {"APP_KEY_ADD", "MODEL_APP_BIND", "MODEL_PUB_SET", "MODEL_SUB_ADD"}

\* the (model id, company id) pairs of an entry, in order
RECURSIVE ModelsFrom(_, _)
ModelsFrom(n, i) ==
    IF i >= n.model_count THEN << >>
    ELSE << [model_id |-> n.models[i].model_id,
             company_id |-> n.models[i].company_id] >> \o ModelsFrom(n, i + 1)
ModelList(n) == ModelsFrom(n, 0)

\* the two reserved configuration models: ids 0 and 1 with the standard tag
Reserved(m) == m.company_id = 65535 /\ m.model_id \in {0, 1}
BindEligible(m) == ~Reserved(m)
NumBindEligible(n) ==
    Cardinality({i \in 0 .. (n.model_count - 1) : BindEligible(n.models[i])})

\* the node of the end-to-end scenario: a server-type and a client-type
\* standard model and one vendor model
E2EModels == << Sig(4096), Sig(4354), Vnd(CID_ESP, VENDOR_MODEL_ID_SERVER) >>

(***************************************************************************)
(* C1.  End to end: for the node with models (OnOff server, sensor client, *)
(* vendor server), once every request has been acknowledged, the requests  *)
(* issued since composition was received are 1 key-add, 2 binds, 2 publish *)
(* and 1 subscribe request, and one Ready event was emitted.               *)
(***************************************************************************)
C1_EndToEnd ==
    \A a \in Addrs :
        (/\ Known(a)
         /\ Entry(a).composition_received
         /\ ModelList(Entry(a)) = E2EModels
         /\ Idle(a))
        => /\ Count(sent[a], "APP_KEY_ADD") = 1
           /\ Count(sent[a], "MODEL_APP_BIND") = 2
           /\ Count(sent[a], "MODEL_PUB_SET") = 2
           /\ Count(sent[a], "MODEL_SUB_ADD") = 1
           /\ Count(sent[a], "READY") = 1

(***************************************************************************)
(* C2.  Liveness, as the result of the finished run: when no submission    *)
(* fails and every request has been acknowledged (nothing is pending for   *)
(* the node), a node whose composition data was received is Ready.         *)
(***************************************************************************)
C2_ReachesReady ==
    \A a \in Addrs :
        (Known(a) /\ Entry(a).composition_received /\ Idle(a))
        => Count(sent[a], "READY") >= 1

\* the models the bind requests of trace s were issued for, in order
IsBindRequest(e) == e.opcode = "MODEL_APP_BIND"
ModelOf(e) == [model_id |-> e.model_id, company_id |-> e.company_id]
BindRequests(s) ==
    LET q == SelectSeq(s, IsBindRequest) IN [i \in 1 .. Len(q) |-> ModelOf(q[i])]
IsPrefix(p, q) == Len(p) <= Len(q) /\ SubSeq(q, 1, Len(p)) = p
EligibleToBind(n) == SelectSeq(ModelList(n), BindEligible)

\* the publish step has run for the trace: it submitted a request or found
\* nothing left
PublishStepRan(s) == Count(s, "MODEL_PUB_SET") > 0 \/ Count(s, "READY") > 0

(***************************************************************************)
(* C3.  With no submission refused and each request acknowledged once: the *)
(* bind requests issued for a node are, in order, for a prefix of its      *)
(* bind-eligible models, at most one of them is unacknowledged, none is    *)
(* issued after the publish step has run, and once the publish step has    *)
(* run they are exactly the M bind-eligible models.                        *)
(***************************************************************************)
C3_BindRequests ==
    \A a \in Addrs :
        (Known(a) /\ Entry(a).composition_received)
        => LET b == BindRequests(sent[a])
               e == EligibleToBind(Entry(a))
           IN  /\ IsPrefix(b, e)
               /\ NumPending(a, {"MODEL_APP_BIND"}) <= 1
               /\ PublishStepRan(sent[a]) =>
                      /\ b = e
                      /\ Len(b) = NumBindEligible(Entry(a))
                      /\ NumPending(a, {"MODEL_APP_BIND"}) = 0
               /\ \A i, j \in 1 .. Len(sent[a]) :
                      (i < j /\ sent[a][i].opcode \in {"MODEL_PUB_SET", "READY"})
                      => sent[a][j].opcode # "MODEL_APP_BIND"

\* a node with a reserved model and at least two bind-eligible ones has left
\* the bind phase
C3_Witness ==
    \E a \in Addrs :
        /\ Known(a) /\ Entry(a).composition_received
        /\ PublishStepRan(sent[a])
        /\ NumBindEligible(Entry(a)) >= 2
        /\ NumBindEligible(Entry(a)) < Entry(a).model_count
        /\ Len(BindRequests(sent[a])) >= 2

\* the first model at or after the bind cursor that is neither flagged bound
\* nor reserved (model_count if there is none)
RECURSIVE FirstToBind(_, _)
FirstToBind(n, i) ==
    IF i >= n.model_count THEN n.model_count
    ELSE IF ~n.models[i].appkey_bound /\ BindEligible(n.models[i]) THEN i
    ELSE FirstToBind(n, i + 1)

\* what one run of the bind step does to entry n when nothing is refused
BindStepSkipsReserved(a, n) ==
    LET r == bind_next_model(a, n, {})
        j == FirstToBind(n, n.next_model_to_bind)
    IN  /\ \A k \in 1 .. Len(r.reqs) : ~Reserved(ModelOf(r.reqs[k]))
        /\ \A i \in 0 .. (n.model_count - 1) :
               (/\ n.next_model_to_bind <= i
                /\ i < j
                /\ Reserved(n.models[i]))
               => /\ r.info.models[i].appkey_bound
                  /\ r.info.next_model_to_bind > i
        /\ j < n.model_count
           => /\ r.ret
              /\ r.info.next_model_to_bind = j
              /\ r.reqs = << Request("MODEL_APP_BIND", a, n.unicast,
                                     n.models[j].model_id,
                                     n.models[j].company_id, 0, 0, 0) >>
        /\ j >= n.model_count => ~r.ret /\ r.reqs = << >>

PhaseRank(e) ==
    CASE e.opcode = "APP_KEY_ADD" -> 1
      [] e.opcode = "MODEL_APP_BIND" -> 2
      [] e.opcode = "MODEL_PUB_SET" -> 3
      [] e.opcode = "MODEL_SUB_ADD" -> 4
      [] OTHER -> 5

(***************************************************************************)
(* C5.  Whatever events are delivered, a node's phase only moves forward:  *)
(* no bind request is issued before the key-add acknowledgment, no publish *)
(* request before the bind scan is exhausted, no subscribe request before  *)
(* the publish scan is exhausted, and in the node's request trace no       *)
(* request of an earlier phase follows one of a later phase.               *)
(***************************************************************************)
C5_PhasesForward ==
    \A a \in Addrs :
        (Known(a) /\ Entry(a).composition_received)
        => /\ Count(sent[a], "MODEL_APP_BIND") > 0 => Entry(a).appkey_added
           /\ Count(sent[a], "MODEL_PUB_SET") > 0
                  => Entry(a).next_model_to_bind >= Entry(a).model_count
           /\ Count(sent[a], "MODEL_SUB_ADD") > 0
                  => Entry(a).next_model_to_pub >= Entry(a).model_count
           /\ \A i, j \in 1 .. Len(sent[a]) :
                  i < j => PhaseRank(sent[a][i]) <= PhaseRank(sent[a][j])

(***************************************************************************)
(* C6.  Ready is emitted at most once for a node, only when the subscribe  *)
(* scan is exhausted, and it is terminal: nothing follows it in the node's *)
(* trace, neither a configuration request nor a second Ready.              *)
(***************************************************************************)
C6_ReadyOnceAndTerminal ==
    \A a \in Addrs :
        Count(sent[a], "READY") > 0
        => /\ Count(sent[a], "READY") = 1
           /\ sent[a][Len(sent[a])].opcode = "READY"
           /\ Known(a)
           /\ Entry(a).next_model_to_sub >= Entry(a).model_count
           /\ Idle(a)

\* at most one configuration request to address a is unacknowledged
OneOutstanding(a) == NumPending(a, ConfigOps) <= 1
\* the requests the step submits
Submitted == inflight' (-) inflight

AloneInit == [nodes |-> [i \in NodeIdx |-> ZeroNode], node_count |-> 0, sent |-> << >>]

\* the callbacks run on that registry for event e
AloneStep(st, e) ==
    IF e.kind = "prov"
    THEN LET r == prov_complete(st.nodes, st.node_count, e.uuid, e.param.addr,
                                e.elem_num, TRUE, ~e.fail.key)
         IN  [nodes |-> r.nodes, node_count |-> r.node_count,
              sent |-> IF r.stored THEN << >> ELSE st.sent]
    ELSE LET r == mesh_config_client_cb(st.nodes, st.node_count, e.event,
                                        e.param, e.fail)
         IN  [nodes |-> r.nodes, node_count |-> st.node_count,
              sent |-> TraceAfter(st.sent, e.param.addr, r)]

\* the device run alone through the events h
RECURSIVE Alone(_)
Alone(h) ==
    IF h = << >> THEN AloneInit
    ELSE AloneStep(Alone(SubSeq(h, 1, Len(h) - 1)), h[Len(h)])

(***************************************************************************)
(* C8.  Nodes progress independently: whatever the interleaving of the     *)
(* events of several nodes, each node's registry entry and request trace   *)
(* are those the node gets when its own events are handled alone, every    *)
(* request in a node's trace is addressed to that node, and every pending  *)
(* configuration request is one of its addressee's trace.                  *)
(***************************************************************************)
C8_Independent ==
    /\ \A a \in Addrs : \A k \in 1 .. Len(sent[a]) : sent[a][k].addr = a
    /\ \A r \in BagToSet(inflight) :
           r.opcode \in ConfigOps
           => \E k \in 1 .. Len(sent[r.addr]) : sent[r.addr][k] = r
    /\ \A u \in UUIDs :
           LET k == UuidSlotFrom(nodes, node_count, u, 0)
               al == Alone(hist[u])
           IN  IF k < 0 THEN hist[u] = << >>
               ELSE /\ al.node_count = 1
                    /\ al.nodes[0] = nodes[k]
                    /\ al.sent = sent[nodes[k].unicast]

\* two nodes with different model lists are both past their first bind
\* acknowledgment, the second stored node having started first
C8_Witness ==
    /\ node_count = 2
    /\ ModelList(nodes[0]) # ModelList(nodes[1])
    /\ \A u \in UUIDs : Len(hist[u]) >= 4
    /\ nodes[0].next_model_to_bind > 0
    /\ nodes[1].next_model_to_pub > 0
    /\ nodes[0].next_model_to_pub = 0

(***************************************************************************)
(* C9.  In every reachable state each of a stored node's three cursors is  *)
(* at most the node's model count.                                         *)
(***************************************************************************)
C9_CursorsBounded ==
    \A i \in NodeIdx :
        i < node_count
        => /\ nodes[i].next_model_to_bind <= nodes[i].model_count
           /\ nodes[i].next_model_to_pub <= nodes[i].model_count
           /\ nodes[i].next_model_to_sub <= nodes[i].model_count

\* the step handles composition data for device u
CompositionHandled(u) ==
    /\ hist'[u] # hist[u]
    /\ hist'[u][Len(hist'[u])].kind = "cfg"
    /\ hist'[u][Len(hist'[u])].param.opcode = "COMPOSITION_DATA_GET"

\* no cursor of the entry in slot i is smaller after the step
CursorsKept(i) ==
    /\ nodes'[i].next_model_to_bind >= nodes[i].next_model_to_bind
    /\ nodes'[i].next_model_to_pub >= nodes[i].next_model_to_pub
    /\ nodes'[i].next_model_to_sub >= nodes[i].next_model_to_sub

RequestEligible(e) ==
    CASE e.opcode = "MODEL_APP_BIND" ->
             model_needs_appkey_binding(e.model_id, e.company_id)
      [] e.opcode = "MODEL_PUB_SET" ->
             model_supports_publication(e.model_id, e.company_id)
      [] e.opcode = "MODEL_SUB_ADD" ->
             model_supports_subscription(e.model_id, e.company_id)
      [] OTHER -> TRUE

(***************************************************************************)
(* C11.  A node announced Ready has, in its registry entry, the key-bound, *)
(* the publish-configured and the subscribe-configured flag set for every  *)
(* model (eligible models by their acknowledgment, ineligible ones by the  *)
(* scan), and no request was issued for a model in a phase the model is    *)
(* not eligible for.                                                       *)
(***************************************************************************)
C11_ReadyMeansAllFlagsSet ==
    \A a \in Addrs :
        (Known(a) /\ Count(sent[a], "READY") > 0)
        => /\ \A i \in 0 .. (Entry(a).model_count - 1) :
                  /\ Entry(a).models[i].appkey_bound
                  /\ Entry(a).models[i].pub_configured
                  /\ Entry(a).models[i].sub_configured
           /\ \A k \in 1 .. Len(sent[a]) : RequestEligible(sent[a][k])


(***************************************************************************)
(* The node registry on its own (ble_mesh_storage.c): its operations       *)
(* called in any order.  The registry holds MESH_STORAGE_MAX_NODES         *)
(* entries, so eleven identifiers are needed to fill it and go one past.   *)
(***************************************************************************)
\* device UUIDs, in the order in which new devices are first stored
RegIds == << "n1", "n2", "n3", "n4", "n5", "n6", "n7", "n8", "n9", "n10",
             "n11" >>

\* the address the stack assigns to the k-th device
RegAddr(k) == 16 + k

\* an address that the first devices may also be stored under
SharedAddr == 5

\* the devices that may be stored under SharedAddr
Sharers == 1 .. 4

RegAddrs == {RegAddr(k) : k \in 1 .. Len(RegIds)} \cup {SharedAddr}

RegElemNums == {1, 2}

RegStates == {0, 1}

\* mesh_storage_init: memset(nodes, 0), node_count = 0
RegInit ==
    /\ nodes' = [i \in NodeIdx |-> ZeroNode]
    /\ node_count' = 0
    /\ UNCHANGED << inflight, sent, provs, strays, fails, hist, telemetry, parsing, wifi, build >>

\* mesh_storage_add_node(uuid, unicast, elem_num, LED_OFF) for a stored
\* device or for the next new one
RegAdd ==
    \E k \in 1 .. Len(RegIds) : \E unicast \in {RegAddr(k), SharedAddr} :
        /\ k <= node_count + 1
        /\ unicast = SharedAddr => k \in Sharers
        /\ LET r == mesh_storage_add_node(nodes, node_count, RegIds[k],
                                          unicast, 1, LED_OFF)
           IN  /\ nodes' = r.nodes
               /\ node_count' = r.node_count
        /\ UNCHANGED << inflight, sent, provs, strays, fails, hist, telemetry, parsing, wifi, build >>

\* mesh_storage_get_node(unicast, &info), a change to info, then
\* mesh_storage_update_node(unicast, &info), as the handlers do
RegUpdate ==
    \E unicast \in {RegAddr(1), SharedAddr} : \E v \in RegStates :
        LET got == mesh_storage_get_node(nodes, node_count, unicast)
        IN  /\ got.err = "ESP_OK"
            /\ nodes' = mesh_storage_update_node(nodes, node_count, unicast,
                            [got.info EXCEPT !.onoff_state = v])
            /\ UNCHANGED << node_count, inflight, sent, provs, strays, fails,
                            hist, telemetry, parsing, wifi, build >>

NextReg == RegInit \/ RegAdd \/ RegUpdate

SpecReg == Init /\ [][NextReg]_vars

\* the stored entries
Stored == 0 .. (node_count - 1)

(***************************************************************************)
(* C12: after any sequence of init, add and update calls, no two stored    *)
(* entries have the same address and no two stored entries have the same   *)
(* UUID.                                                                   *)
(***************************************************************************)
C12_UniqueKeys ==
    \A i, j \in Stored :
        i # j => /\ nodes[i].unicast # nodes[j].unicast
                 /\ nodes[i].uuid # nodes[j].uuid

\* the two halves of C12
UniqueUuids == \A i, j \in Stored : i # j => nodes[i].uuid # nodes[j].uuid
UniqueAddrs == \A i, j \in Stored : i # j => nodes[i].unicast # nodes[j].unicast


\* the arguments of one mesh_storage_add_node call
AddCalls == [uuid : {RegIds[k] : k \in 1 .. Len(RegIds)}, unicast : RegAddrs,
             elem_num : RegElemNums, onoff_state : RegStates]

\* the call applied to the registry as it is now
AddNow(c) ==
    mesh_storage_add_node(nodes, node_count, c.uuid, c.unicast, c.elem_num,
                          c.onoff_state)

\* the slot that holds the UUID now, or -1
UuidSlot(uuid) == UuidSlotFrom(nodes, node_count, uuid, 0)

\* no entry of another device is stored under the call's address
ValidPair(c) ==
    \A i \in Stored : nodes[i].unicast = c.unicast => nodes[i].uuid = c.uuid

\* the lookup by the call's address, after the call
GetAfter(c) ==
    LET r == AddNow(c)
    IN  mesh_storage_get_node(r.nodes, r.node_count, c.unicast)

\* the entry the lookup returns carries the call's four arguments
RoundTrip(c) ==
    LET g == GetAfter(c)
    IN  /\ g.err = "ESP_OK"
        /\ g.info.uuid = c.uuid
        /\ g.info.unicast = c.unicast
        /\ g.info.elem_num = c.elem_num
        /\ g.info.onoff_state = c.onoff_state

(***************************************************************************)
(* C13: in every reachable registry state, a successful add of (uuid,      *)
(* unicast, elem_num, onoff_state) followed at once by a lookup of unicast *)
(* returns ESP_OK and an entry whose uuid, unicast, elem_num and           *)
(* onoff_state are the arguments of the add, for every pair of a UUID and  *)
(* an address that no other device is stored under.                        *)
(***************************************************************************)
C13_AddThenGet ==
    \A c \in AddCalls :
        (ValidPair(c) /\ AddNow(c).err = "ESP_OK") => RoundTrip(c)

\* a registry with entries where the round trip is made both by a new
\* device and by a stored device that changes address, element count and
\* state
C13_Witness ==
    /\ node_count >= 2
    /\ \E c \in AddCalls :
           /\ UuidSlot(c.uuid) = -1
           /\ ValidPair(c) /\ AddNow(c).err = "ESP_OK" /\ RoundTrip(c)
    /\ \E c \in AddCalls :
           /\ UuidSlot(c.uuid) >= 0
           /\ nodes[UuidSlot(c.uuid)].unicast # c.unicast
           /\ nodes[UuidSlot(c.uuid)].elem_num # c.elem_num
           /\ nodes[UuidSlot(c.uuid)].onoff_state # c.onoff_state
           /\ ValidPair(c) /\ AddNow(c).err = "ESP_OK" /\ RoundTrip(c)


\* a call for a stored device with an address other than the stored one
ReAdds ==
    {c \in AddCalls :
        UuidSlot(c.uuid) >= 0 /\ nodes[UuidSlot(c.uuid)].unicast # c.unicast}

\* the call leaves the count alone, writes its address, element count and
\* state into the device's slot and leaves every other slot as it was
UpdatedInPlace(c) ==
    LET k == UuidSlot(c.uuid)
        r == AddNow(c)
    IN  /\ r.node_count = node_count
        /\ r.nodes[k].uuid = c.uuid
        /\ r.nodes[k].unicast = c.unicast
        /\ r.nodes[k].elem_num = c.elem_num
        /\ r.nodes[k].onoff_state = c.onoff_state
        /\ \A i \in NodeIdx \ {k} : r.nodes[i] = nodes[i]

(***************************************************************************)
(* C14: adding a UUID that is already stored, with an address other than   *)
(* the stored one, updates the entry in place: the count is unchanged, the *)
(* entry stays in its slot, its address, element count and state become    *)
(* the arguments, and every other entry is unchanged.                      *)
(***************************************************************************)
C14_ReAddInPlace == \A c \in ReAdds : UpdatedInPlace(c)

\* the same while the registry has a free slot
ReAddInPlaceBelowCapacity ==
    node_count < MESH_STORAGE_MAX_NODES => \A c \in ReAdds : UpdatedInPlace(c)


(***************************************************************************)
(* C15: an add for a UUID that is already stored returns ESP_OK and        *)
(* overwrites the entry in every registry state, also when the registry    *)
(* holds MESH_STORAGE_MAX_NODES entries; ESP_ERR_NO_MEM is returned only   *)
(* when the UUID is not stored and no slot is free.                        *)
(***************************************************************************)
C15_StoredIdNeverRefused ==
    \A c \in AddCalls :
        LET r == AddNow(c)
        IN  /\ UuidSlot(c.uuid) >= 0
               => /\ r.err = "ESP_OK"
                  /\ r.nodes[UuidSlot(c.uuid)].unicast = c.unicast
                  /\ r.nodes[UuidSlot(c.uuid)].elem_num = c.elem_num
                  /\ r.nodes[UuidSlot(c.uuid)].onoff_state = c.onoff_state
            /\ r.err = "ESP_ERR_NO_MEM"
               => /\ UuidSlot(c.uuid) = -1
                  /\ node_count >= MESH_STORAGE_MAX_NODES

\* what the code does: the call is refused exactly when no slot is free,
\* whether the UUID is stored or not
RefusedIffFull ==
    \A c \in AddCalls :
        AddNow(c).err = "ESP_ERR_NO_MEM"
        <=> node_count >= MESH_STORAGE_MAX_NODES


RECURSIVE AddFirst(_)
\* the result of the k-th call when, after mesh_storage_init, the first k
\* UUIDs of RegIds are added in turn, each under its own address
AddFirst(k) ==
    IF k = 0
    THEN [err |-> "ESP_OK", nodes |-> [i \in NodeIdx |-> ZeroNode],
          node_count |-> 0]
    ELSE LET p == AddFirst(k - 1)
         IN  mesh_storage_add_node(p.nodes, p.node_count, RegIds[k],
                                   RegAddr(k), 1, LED_OFF)

\* calls for a device that is not stored
NewAdds == {c \in AddCalls : UuidSlot(c.uuid) = -1}

(***************************************************************************)
(* C16: starting from init, the first MESH_STORAGE_MAX_NODES adds with     *)
(* pairwise distinct UUIDs return ESP_OK and the next add with another     *)
(* UUID returns ESP_ERR_NO_MEM and leaves the entries and the count as     *)
(* they were; in every reachable state the count is at most                *)
(* MESH_STORAGE_MAX_NODES, a new UUID is stored in the next free slot      *)
(* while there is one, and refused without any change when there is none.  *)
(***************************************************************************)
C16_Capacity ==
    /\ node_count <= MESH_STORAGE_MAX_NODES
    /\ \A k \in 1 .. MESH_STORAGE_MAX_NODES :
           /\ AddFirst(k).err = "ESP_OK"
           /\ AddFirst(k).node_count = k
    /\ LET full == AddFirst(MESH_STORAGE_MAX_NODES)
           last == AddFirst(MESH_STORAGE_MAX_NODES + 1)
       IN  /\ last.err = "ESP_ERR_NO_MEM"
           /\ last.nodes = full.nodes
           /\ last.node_count = full.node_count
    /\ \A c \in NewAdds :
           LET r == AddNow(c)
           IN  IF node_count < MESH_STORAGE_MAX_NODES
               THEN /\ r.err = "ESP_OK"
                    /\ r.node_count = node_count + 1
                    /\ r.nodes[node_count].uuid = c.uuid
               ELSE /\ r.err = "ESP_ERR_NO_MEM"
                    /\ r.nodes = nodes
                    /\ r.node_count = node_count

\* the registry filled by ten distinct devices since init, and an eleventh
\* device refused
C16_Witness ==
    /\ node_count = MESH_STORAGE_MAX_NODES
    /\ nodes = AddFirst(MESH_STORAGE_MAX_NODES).nodes
    /\ \E c \in NewAdds :
           /\ c.uuid = RegIds[MESH_STORAGE_MAX_NODES + 1]
           /\ AddNow(c).err = "ESP_ERR_NO_MEM"
           /\ AddNow(c).nodes = nodes


(***************************************************************************)
(* Eligibility for the publish and the subscribe phase                     *)
(***************************************************************************)
\* the case labels of the switch in model_supports_publication
ServerSet == {4096, 4098, 4100, 4102, 4104, 4106, 4108, 4110,
              4352, 4608, 4609, 4864, 4865, 4867, 4868}

\* model ids around every case label, and company tags: the SIG sentinel,
\* the vendor of the firmware and another vendor
ClassIds == (0 .. 3) \cup (4096 .. 4112) \cup (4352 .. 4355)
            \cup (4608 .. 4610) \cup (4864 .. 4870)
ClassCids == {ESP_BLE_MESH_CID_NVAL, CID_ESP, 89}

PubEligible(m) ==
    m.company_id # ESP_BLE_MESH_CID_NVAL \/ m.model_id \in ServerSet

IsPubRequest(e) == e.opcode = "MODEL_PUB_SET"
PubRequests(s) ==
    LET q == SelectSeq(s, IsPubRequest) IN [i \in 1 .. Len(q) |-> ModelOf(q[i])]
EligibleToPublish(n) == SelectSeq(ModelList(n), PubEligible)

SubEligible(m) ==
    \/ m.company_id = ESP_BLE_MESH_CID_NVAL /\ m.model_id = 4354
    \/ m.company_id # ESP_BLE_MESH_CID_NVAL /\ m.model_id = VENDOR_MODEL_ID_CLIENT

IsSubRequest(e) == e.opcode = "MODEL_SUB_ADD"
SubRequests(s) ==
    LET q == SelectSeq(s, IsSubRequest) IN [i \in 1 .. Len(q) |-> ModelOf(q[i])]
EligibleToSubscribe(n) == SelectSeq(ModelList(n), SubEligible)

(***************************************************************************)
(* C18: a subscribe request is issued for a model if and only if it is the *)
(* SIG model 0x1102 or a vendor model with id 0x0000; a vendor model with  *)
(* id 0x0001 and every other SIG model are flagged subscribe-configured    *)
(* without a request.  Stated for a node that has been announced           *)
(* configured: its subscribe requests are those of its eligible models and *)
(* each of its ineligible models is flagged.                               *)
(***************************************************************************)
C18_SubscribeIffEligible ==
    \A a \in Addrs :
        (Known(a) /\ Count(sent[a], "READY") > 0)
        => /\ SubRequests(sent[a]) = EligibleToSubscribe(Entry(a))
           /\ \A i \in 0 .. (Entry(a).model_count - 1) :
                  ~SubEligible(ModelList(Entry(a))[i + 1])
                  => Entry(a).models[i].sub_configured

\* no subscribe request is ever submitted and no model is ever flagged
\* subscribe-configured
NeverSubscribes ==
    \A a \in Addrs :
        /\ Count(sent[a], "MODEL_SUB_ADD") = 0
        /\ Known(a) => \A i \in ModelIdx : ~Entry(a).models[i].sub_configured

\* subscribe_next_model applied to a stored entry: the eligibility function
\* is the one stated, the step submits at most one request, for the first
\* unflagged eligible model at or after the cursor, and flags every
\* ineligible model it passes
SubscribeStepAlone ==
    /\ \A id \in ClassIds : \A cid \in ClassCids :
           model_supports_subscription(id, cid)
           <=> SubEligible([model_id |-> id, company_id |-> cid])
    /\ \A a \in Addrs :
           Known(a)
           => LET n == Entry(a)
                  r == subscribe_next_model(a, n, {})
                  todo == {i \in n.next_model_to_sub .. (n.model_count - 1) :
                              /\ ~n.models[i].sub_configured
                              /\ SubEligible(ModelList(n)[i + 1])}
              IN  /\ r.ret <=> todo # {}
                  /\ Len(r.reqs) = IF todo = {} THEN 0 ELSE 1
                  /\ \A k \in 1 .. Len(r.reqs) :
                         /\ SubEligible(ModelOf(r.reqs[k]))
                         /\ \A i \in todo : r.info.next_model_to_sub <= i
                         /\ ModelOf(r.reqs[k])
                                = ModelList(n)[r.info.next_model_to_sub + 1]
                  /\ \A i \in n.next_model_to_sub
                                .. (r.info.next_model_to_sub - 1) :
                         SubEligible(ModelList(n)[i + 1])
                         \/ r.info.models[i].sub_configured


(***************************************************************************)
(* The sensor client callback applied to one pending event                 *)
(***************************************************************************)
InitSensor ==
    /\ nodes = [i \in NodeIdx |-> ZeroNode]
    /\ node_count = 0
    /\ inflight = EmptyBag
    /\ sent = [a \in Addrs |-> << >>]
    /\ provs = 0
    /\ strays = 0
    /\ fails = 0
    /\ hist = [u \in UUIDs |-> << >>]
    /\ sensor_msg \in SensorEvents
    /\ sensor_log = NoSensorLog
    /\ bridge \in {NoBridge, Bridge(TRUE, FALSE, << >>),
                   Bridge(TRUE, TRUE, MeshPrefix)}
    /\ vendor_msg = NoVendorEvent
    /\ vendor_log = NoVendorLog
    /\ mqtt = << >>
    /\ comp_data = NoCompData
    /\ parse_out = NoParse
    /\ wifi = NoWifi
    /\ build = COMPONENT

SensorClientEvent ==
    /\ sensor_msg # NoSensorEvent
    /\ sensor_log' = mesh_sensor_client_cb(sensor_msg.event, sensor_msg.opcode,
                                           sensor_msg.error_code,
                                           sensor_msg.addr, sensor_msg.data)
    /\ \E timestamp_ms \in Times :
           mqtt' = SensorPublishes(bridge, sensor_log'.calls, timestamp_ms)
    /\ sensor_msg' = NoSensorEvent
    /\ UNCHANGED << nodes, node_count, inflight, sent, provs, strays, fails,
                    hist, bridge, vendor_msg, vendor_log,
                    parsing, wifi, build >>

\* sensor statuses delivered after an earlier one: a four-byte Format A
\* value, a two-byte Format B heart rate, a truncated Format B header
LaterSensorEvents ==
    {SensorEvent("PUBLISH_EVT", "SENSOR_STATUS", 0, 5, d) :
         d \in {<< 6, 9, 254, 255, 255, 255 >>, << 5, 55, 42, 60, 0 >>,
                << 9, 1 >>}}

\* the mesh stack delivers another sensor status after one that produced
\* no value
SensorArrive ==
    /\ sensor_msg = NoSensorEvent
    /\ sensor_log.calls = << >>
    /\ sensor_msg' \in LaterSensorEvents
    /\ UNCHANGED << nodes, node_count, inflight, sent, provs, strays, fails,
                    hist, sensor_log, bridge, vendor_msg, vendor_log, mqtt,
                    parsing, wifi, build >>

NextSensor == SensorClientEvent \/ SensorArrive

SpecSensor == InitSensor /\ [][NextSensor]_vars

\* bit i of n, and the number formed by bits lo .. hi of n
Bit(n, i) == (n \div (2 ^ i)) % 2
RECURSIVE Bits(_, _, _)
Bits(n, lo, hi) ==
    IF hi < lo THEN 0 ELSE Bit(n, lo) + 2 * Bits(n, lo + 1, hi)

\* the callback decoded a header from the buffer it dumped
DecodedA == sensor_log.format = "A"
DecodedB == sensor_log.format = "B"
HeaderIs(h) ==
    Len(sensor_log.raw) >= Len(h) /\ SubSeq(sensor_log.raw, 1, Len(h)) = h

\* Format A is chosen by a clear low bit of byte 0; with the two header
\* bytes read as a little-endian 16-bit number, the length code is bits 1-4,
\* the length is code + 1 for the codes 0 .. 14 and the property id is bits
\* 5-15
FormatALayout ==
    /\ Len(sensor_log.raw) >= 2
       => (DecodedA <=> Bit(sensor_log.raw[1], 0) = 0)
    /\ DecodedA
       => LET mpid == sensor_log.raw[1] + 256 * sensor_log.raw[2]
              code == Bits(mpid, 1, 4)
          IN  /\ code <= 14 => sensor_log.data_length = code + 1
              /\ sensor_log.property_id = Bits(mpid, 5, 15)

FormatBLayout ==
    /\ Len(sensor_log.raw) >= 3
       => (DecodedB <=> Bit(sensor_log.raw[1], 0) = 1)
    /\ DecodedB
       => LET code == Bits(sensor_log.raw[1], 1, 7)
          IN  /\ code <= 126 => sensor_log.data_length = code
              /\ sensor_log.property_id
                     = sensor_log.raw[2] + 256 * sensor_log.raw[3]

(***************************************************************************)
(* C20: the Format B layout, and the header bytes 0x09 0x01 0x50 decode to *)
(* property id 0x5001 and length 4.                                        *)
(***************************************************************************)
C20_FormatB ==
    /\ FormatBLayout
    /\ HeaderIs(<< 9, 1, 80 >>)
       => sensor_log.property_id = 20481 /\ sensor_log.data_length = 4

\* the callback has decoded the header 0x09 0x01 0x50 and handed on the
\* four-byte value that follows it
C20_Witness ==
    /\ DecodedB /\ HeaderIs(<< 9, 1, 80 >>)
    /\ sensor_log.calls
           = << [src_addr |-> 5, property_id |-> 20481, value |-> 80] >>


(***************************************************************************)
(* Vendor messages delivered to mesh_vendor_client_cb, with the bridge     *)
(* linked or not and initialized at any time                               *)
(***************************************************************************)
\* the IMU record of the example: timestamp 1, accel (10, -10, 20),
\* gyro (5, -5, 1)
ImuExample == << 1, 0, 10, 246, 20, 5, 251, 1 >>

\* IMU payloads: the example with every value of each of its bytes in turn,
\* and payloads of other lengths
ImuPayloads ==
    {[ImuExample EXCEPT ![k] = b] : k \in 1 .. 8, b \in 0 .. 255}
    \cup {<< >>, << 1 >>, SubSeq(ImuExample, 1, 7), ImuExample \o << 0 >>,
          ImuExample \o ImuExample}

VendorEvents ==
    {VendorEvent("MODEL_OPERATION_EVT", VENDOR_OP_IMU_DATA, 5, d) :
         d \in ImuPayloads}
    \cup {VendorEvent("MODEL_OPERATION_EVT", op, a, d) :
              op \in {VENDOR_OP_IMU_DATA, VENDOR_OP_IMU_DATA + 1},
              a \in {16, 43981},
              d \in {ImuExample, SubSeq(ImuExample, 1, 7)}}
    \cup {VendorEvent(e, VENDOR_OP_IMU_DATA, 5, ImuExample) :
              e \in {"SEND_COMP_EVT", "RECV_PUBLISH_MSG_EVT",
                     "SEND_TIMEOUT_EVT"}}

BridgeConfigs ==
    {BridgeConfig(TRUE, TRUE, << >>), BridgeConfig(FALSE, TRUE, << >>),
     BridgeConfig(FALSE, FALSE, MeshPrefix),
     BridgeConfig(FALSE, FALSE, LongPrefix),
     BridgeConfig(FALSE, FALSE, LongPrefix \o << "q" >>)}

InitVendor ==
    /\ nodes = [i \in NodeIdx |-> ZeroNode]
    /\ node_count = 0
    /\ inflight = EmptyBag
    /\ sent = [a \in Addrs |-> << >>]
    /\ provs = 0
    /\ strays = 0
    /\ fails = 0
    /\ hist = [u \in UUIDs |-> << >>]
    /\ sensor_msg = NoSensorEvent
    /\ sensor_log = NoSensorLog
    /\ bridge \in {NoBridge, Bridge(TRUE, FALSE, << >>)}
    /\ vendor_msg \in VendorEvents
    /\ vendor_log = NoVendorLog
    /\ mqtt = << >>
    /\ comp_data = NoCompData
    /\ parse_out = NoParse
    /\ wifi = NoWifi
    /\ build = COMPONENT

\* the application calls mesh_mqtt_bridge_init (only a firmware that links
\* the bridge can)
BridgeInit ==
    /\ bridge.linked
    /\ \E config \in BridgeConfigs :
           bridge' = mesh_mqtt_bridge_init(bridge, config).bridge
    /\ UNCHANGED << nodes, node_count, inflight, sent, provs, strays, fails,
                    hist, sensor_msg, sensor_log, vendor_msg, vendor_log, mqtt,
                    parsing, wifi, build >>

VendorClientEvent ==
    /\ vendor_msg # NoVendorEvent
    /\ LET r == mesh_vendor_client_cb(bridge, vendor_msg)
       IN  /\ vendor_log' = r.log
           /\ mqtt' = r.mqtt
    /\ vendor_msg' = NoVendorEvent
    /\ UNCHANGED << nodes, node_count, inflight, sent, provs, strays, fails,
                    hist, sensor_msg, sensor_log, bridge, parsing, wifi, build >>

NextVendor == BridgeInit \/ VendorClientEvent

SpecVendor == InitVendor /\ [][NextVendor]_vars

\* the last vendor event was an IMU message handed to the handler
ImuHanded ==
    /\ vendor_log.handed
    /\ vendor_log.msg.opcode = VENDOR_OP_IMU_DATA

\* the number that a printed "%.1f" text stands for, in tenths
TenthsOf(f) ==
    (IF f.neg THEN 0 - 1 ELSE 1) * (10 * f.whole + f.tenth)

\* a decoded record is the decoding of the eight bytes d: accel in tenths
\* and gyro divided by ten are the bytes read as two's complement, the
\* timestamp is the first two bytes, low byte first
DecodesFrom(imu, d) ==
    /\ \A k \in 1 .. 3 :
           /\ TenthsOf(imu.accel[k])
                  = (IF d[2 + k] >= 128 THEN d[2 + k] - 256 ELSE d[2 + k])
           /\ imu.accel[k].tenth \in 0 .. 9
           /\ imu.gyro[k]
                  = 10 * (IF d[5 + k] >= 128 THEN d[5 + k] - 256 ELSE d[5 + k])
    /\ imu.time = d[1] + 256 * d[2]

(***************************************************************************)
(* C21: from an 8-byte IMU record each accel byte, read as a signed 8-bit  *)
(* value a, is decoded to a x 0.1 and each gyro byte, read as a signed     *)
(* 8-bit value g, to g x 10, for every byte value; the 2-byte timestamp is *)
(* passed on as it is; the record with timestamp 1, accel (10, -10, 20)    *)
(* and gyro (5, -5, 1) decodes to accel (1.0, -1.0, 2.0) and gyro          *)
(* (50, -50, 10).  Both the callback's own decoding and the payload the    *)
(* bridge publishes are meant.                                             *)
(***************************************************************************)
C21_ImuDecode ==
    (ImuHanded /\ Len(vendor_log.msg.data) = 8)
    => /\ vendor_log.logged
       /\ DecodesFrom(vendor_log.imu, vendor_log.msg.data)
       /\ \A k \in 1 .. Len(mqtt) :
              DecodesFrom(mqtt[k].payload, vendor_log.msg.data)
       /\ vendor_log.msg.data = ImuExample
          => /\ vendor_log.imu.time = 1
             /\ vendor_log.imu.accel
                    = << [neg |-> FALSE, whole |-> 1, tenth |-> 0],
                         [neg |-> TRUE, whole |-> 1, tenth |-> 0],
                         [neg |-> FALSE, whole |-> 2, tenth |-> 0] >>
             /\ vendor_log.imu.gyro = << 50, 0 - 50, 10 >>

\* the example record was decoded and published by an initialized bridge
C21_Witness ==
    /\ ImuHanded /\ vendor_log.msg.data = ImuExample
    /\ bridge.g_bridge_initialized
    /\ Len(mqtt) = 1
    /\ mqtt[1].payload.gyro = << 50, 0 - 50, 10 >>

(***************************************************************************)
(* C22: an IMU message whose payload is not exactly 8 bytes long is        *)
(* rejected as a whole: nothing is decoded from it and nothing is          *)
(* published for it.                                                       *)
(***************************************************************************)
C22_ImuLengthRejected ==
    (ImuHanded /\ Len(vendor_log.msg.data) # 8)
    => /\ ~vendor_log.logged
       /\ mqtt = << >>

\* a linked and initialized bridge was handed a 16-byte IMU message
C22_Witness ==
    /\ ImuHanded /\ Len(vendor_log.msg.data) = 16
    /\ bridge.g_bridge_initialized
    /\ mqtt = << >>


\* ---------------------------------------------------------------------
\* Scalar value extraction (part_008:1175-1243)
\* ---------------------------------------------------------------------

\* the bytes left in the buffer after the header the callback pulled
AfterHeader ==
    Pull(sensor_log.raw, IF sensor_log.format = "A" THEN 2 ELSE 3)

\* byte i (from 1, least significant first) of the two's complement
\* representation of v
ByteOf(v, i) == (v \div (256 ^ (i - 1))) % 256

\* v is the first len bytes of buf, little-endian, sign-extended to 32 bits
SignExtendedLE(v, buf, len) ==
    /\ \A i \in 1 .. len : ByteOf(v, i) = buf[i]
    /\ len < 4 => /\ v >= -(2 ^ (8 * len - 1))
                  /\ v < 2 ^ (8 * len - 1)

ScalarLength == sensor_log.data_length \in {1, 2, 4}
EnoughBytes == Len(AfterHeader) >= sensor_log.data_length

\* C23: once a header with data length L is decoded, the callback hands
\* exactly one (property id, value) pair to the handler when L is 1, 2 or 4
\* and at least L bytes follow the header, the value being those L bytes
\* read little-endian and sign-extended to 32 bits; for every other L, and
\* when fewer than L bytes follow, it hands on nothing
C23_ScalarDecode ==
    sensor_log.format \in {"A", "B"} =>
        IF ScalarLength /\ EnoughBytes
        THEN /\ Len(sensor_log.calls) = 1
             /\ sensor_log.calls[1].property_id = sensor_log.property_id
             /\ SignExtendedLE(sensor_log.calls[1].value, AfterHeader,
                               sensor_log.data_length)
        ELSE sensor_log.calls = << >>

\* a four-byte value FE FF FF FF delivered as -2
C23_Witness ==
    /\ sensor_log.format = "A"
    /\ sensor_log.data_length = 4
    /\ AfterHeader = << 254, 255, 255, 255 >>
    /\ Len(sensor_log.calls) = 1
    /\ sensor_log.calls[1].value = -2

\* a three-byte length with three bytes present: nothing is handed on
UnsupportedLengthSeen ==
    /\ sensor_log.format = "B"
    /\ sensor_log.data_length = 3
    /\ Len(AfterHeader) = 3


\* ---------------------------------------------------------------------
\* Short and malformed sensor buffers (part_008:944-1039, 1175-1243)
\* ---------------------------------------------------------------------

\* the marshalled data d is empty, stops inside its header, carries the
\* variable-length code, or has fewer bytes after the header than the
\* header's length
Malformed(d) ==
    \/ Len(d) = 0
    \/ Bit(d[1], 0) = 0
       /\ \/ Len(d) < 2
          \/ LET code == Bits(d[1] + 256 * d[2], 1, 4)
             IN  code = 15 \/ Len(d) - 2 < code + 1
    \/ Bit(d[1], 0) = 1
       /\ \/ Len(d) < 3
          \/ LET code == Bits(d[1], 1, 7)
             IN  code = 127 \/ Len(d) - 3 < code

\* a step in which mesh_sensor_client_cb handles the pending sensor status
SensorStep == sensor_msg # NoSensorEvent /\ sensor_msg' = NoSensorEvent

\* what handling m alone, as the first message, logs and publishes
SensorAlone(m) ==
    mesh_sensor_client_cb(m.event, m.opcode, m.error_code, m.addr, m.data)

\* C24: handling a short or malformed sensor buffer calls the sensor handler
\* not at all, publishes nothing, reads no byte past the end of the buffer
\* and leaves the registry and the configuration cursor as they were; and a
\* message handled after it is decoded and handed on as if it were the first
C24_MalformedAborts ==
    [][SensorStep =>
          /\ Malformed(sensor_msg.data)
             => /\ sensor_log'.calls = << >>
                /\ mqtt' = << >>
                /\ UNCHANGED << nodes, node_count, inflight, sent >>
          /\ sensor_log'.read <= Len(sensor_msg.data)
          /\ sensor_log' = SensorAlone(sensor_msg)
          /\ Len(mqtt') = IF /\ bridge.g_bridge_initialized
                             /\ sensor_log'.calls # << >>
                             /\ sensor_log'.calls[1].property_id
                                    = SENSOR_PROPERTY_HEART_RATE
                          THEN 1 ELSE 0]_vars

\* a buffer whose header asks for four bytes and that has two after the
\* header was handled with the bridge initialized
C24_Witness ==
    /\ sensor_msg = NoSensorEvent
    /\ bridge.g_bridge_initialized
    /\ sensor_log.format = "A"
    /\ sensor_log.data_length = 4
    /\ Len(sensor_log.raw) = 4
    /\ sensor_log.calls = << >>
    /\ mqtt = << >>

\* after a message that produced no value, a heart rate of 60 was decoded
\* and published
LaterHeartRatePublished ==
    /\ sensor_msg = NoSensorEvent
    /\ sensor_log.raw = << 5, 55, 42, 60, 0 >>
    /\ Len(sensor_log.calls) = 1
    /\ sensor_log.calls[1].value = 60
    /\ Len(mqtt) = 1


(***************************************************************************)
(* The composition parser called on its own: a buffer is drawn and         *)
(* parse_composition_data is applied to it (part_008:262-314).             *)
(***************************************************************************)
\* k SIG model ids and m vendor (company id, model id) pairs, all different
SigIds(k) == [i \in 1 .. k |-> 4096 + i]
VndPairs(m) == [j \in 1 .. m |-> << CID_ESP + j, 256 * j + 2 >>]
Elem(k, m) == [sig |-> SigIds(k), vnd |-> VndPairs(m)]

\* element lists: one element with k SIG and m vendor models, within and
\* beyond the capacity of 16, and pages of three elements
ElemLists ==
    {<< Elem(k, m) >> : k \in {0, 1, 2, 3, 14, 16, 17}, m \in {0, 1, 2}}
    \cup {<< Elem(0, 17) >>, << Elem(1, 1), Elem(0, 0), Elem(2, 0) >>,
          << Elem(6, 2), Elem(6, 2), Elem(3, 0) >>}

RECURSIVE ElemBytes(_)
ElemBytes(elems) ==
    IF elems = << >> THEN << >>
    ELSE Element(Head(elems).sig, Head(elems).vnd) \o ElemBytes(Tail(elems))

\* composition data page 0 declaring the elements elems
Page0(elems) == Page0Header \o ElemBytes(elems)

\* the buffers: every page cut at every length, no buffer at all, and byte
\* strings that are no page: an element without page header, counts larger
\* than what follows, and a page followed by three stray bytes
CompDatas ==
    UNION {{CompData(FALSE, SubSeq(Page0(e), 1, n), TRUE, e) :
                n \in 0 .. Len(Page0(e))} : e \in ElemLists}
    \cup {CompData(TRUE, << >>, FALSE, << >>)}
    \cup {CompData(FALSE, d, FALSE, << >>) :
              d \in {Element(<< 4097 >>, << >>),
                     Page0Header \o << 0, 0, 255, 255, 1, 16, 2, 16, 9 >>,
                     Page0Header \o << 7, 7, 7 >>,
                     Page0(<< Elem(1, 0) >>) \o << 1, 2, 3 >>}}

InitParser ==
    /\ nodes = [i \in NodeIdx |-> ZeroNode]
    /\ node_count = 0
    /\ inflight = EmptyBag
    /\ sent = [a \in Addrs |-> << >>]
    /\ provs = 0
    /\ strays = 0
    /\ fails = 0
    /\ hist = [u \in UUIDs |-> << >>]
    /\ sensor_msg = NoSensorEvent
    /\ sensor_log = NoSensorLog
    /\ bridge = NoBridge
    /\ vendor_msg = NoVendorEvent
    /\ vendor_log = NoVendorLog
    /\ mqtt = << >>
    /\ comp_data \in CompDatas
    /\ parse_out = NoParse
    /\ wifi = NoWifi
    /\ build = COMPONENT

\* parse_composition_data(comp_data, discovered, MAX_DISCOVERED_MODELS); a
\* null pointer takes the early return as a short buffer does
ParseComposition ==
    /\ ~parse_out.called
    /\ parse_out' =
           IF comp_data.absent THEN ParseOut(TRUE, << >>, 0)
           ELSE ParseOut(TRUE,
                         parse_composition_data(comp_data.data,
                                                MAX_DISCOVERED_MODELS),
                         ParsePulled(comp_data.data, MAX_DISCOVERED_MODELS))
    /\ UNCHANGED << nodes, node_count, inflight, sent, provs, strays, fails,
                    hist, telemetry, comp_data, wifi, build >>

NextParser == ParseComposition

SpecParser == InitParser /\ [][NextParser]_vars

\* C25: a call with a buffer shorter than 10 bytes, empty or absent,
\* returns no descriptor (a count of zero, which is no error value) and
\* takes nothing from the buffer
C25_ShortInput ==
    parse_out.called /\ (comp_data.absent \/ Len(comp_data.data) < 10)
    => parse_out.models = << >> /\ parse_out.pulled = 0

\* a 9-byte buffer was parsed
C25_Witness ==
    /\ parse_out.called
    /\ ~comp_data.absent
    /\ Len(comp_data.data) = 9

\* an absent buffer was parsed
AbsentParsed == parse_out.called /\ comp_data.absent


\* the descriptors the elements elems declare, in declaration order
RECURSIVE DeclaredModels(_)
DeclaredModels(elems) ==
    IF elems = << >> THEN << >>
    ELSE LET e == Head(elems)
         IN  [i \in 1 .. Len(e.sig) |->
                  [model_id |-> e.sig[i],
                   company_id |-> ESP_BLE_MESH_CID_NVAL,
                   is_vendor |-> FALSE]]
             \o [j \in 1 .. Len(e.vnd) |->
                    [model_id |-> e.vnd[j][2], company_id |-> e.vnd[j][1],
                     is_vendor |-> TRUE]]
             \o DeclaredModels(Tail(elems))

\* the buffer parsed was a whole page of one element
WholeOneElement ==
    /\ parse_out.called
    /\ comp_data.encoded
    /\ Len(comp_data.elems) = 1
    /\ comp_data.data = Page0(comp_data.elems)

\* C26: for a 10-byte header followed by one element declaring k SIG ids
\* and m vendor pairs with k + m at most 16, the parser returns exactly
\* k + m descriptors in declaration order, the first k with the declared
\* ids, company id ESP_BLE_MESH_CID_NVAL and is_vendor false, the last m
\* with the declared company and model ids and is_vendor true
C26_RoundTrip ==
    WholeOneElement
    => LET sig == comp_data.elems[1].sig
           vnd == comp_data.elems[1].vnd
           k == Len(sig)
           m == Len(vnd)
           out == parse_out.models
       IN  k + m <= MAX_DISCOVERED_MODELS
           => /\ Len(out) = k + m
              /\ \A i \in 1 .. k :
                     /\ out[i].model_id = sig[i]
                     /\ out[i].company_id = ESP_BLE_MESH_CID_NVAL
                     /\ ~out[i].is_vendor
              /\ \A j \in 1 .. m :
                     /\ out[k + j].model_id = vnd[j][2]
                     /\ out[k + j].company_id = vnd[j][1]
                     /\ out[k + j].is_vendor

\* an element of 14 SIG and 2 vendor models was parsed into 16 descriptors
C26_Witness ==
    /\ WholeOneElement
    /\ Len(comp_data.elems[1].sig) = 14
    /\ Len(comp_data.elems[1].vnd) = 2
    /\ Len(parse_out.models) = 16

\* the offsets in the page at which the declared models end, in order;
\* start is the offset of the first element
RECURSIVE ModelEnds(_, _)
ModelEnds(elems, start) ==
    IF elems = << >> THEN << >>
    ELSE LET k == Len(Head(elems).sig)
             m == Len(Head(elems).vnd)
         IN  [j \in 1 .. k + m |->
                  start + 4 + (IF j <= k THEN 2 * j
                               ELSE 2 * k + 4 * (j - k))]
             \o ModelEnds(Tail(elems), start + 4 + 2 * k + 4 * m)

\* how many declared models lie wholly in the first n bytes of the page
WholeModels(elems, n) ==
    LET ends == ModelEnds(elems, 10)
    IN  Cardinality({j \in 1 .. Len(ends) : ends[j] <= n})

Min(a, b) == IF a <= b THEN a ELSE b

\* C27: for every buffer the call returns, having pulled no more bytes
\* than the buffer holds, at most 16 descriptors (which fit
\* node_info.models); for a page cut at any length these are the first of
\* the declared models that lie wholly in the buffer, in declaration order
C27_BoundedPrefix ==
    parse_out.called
    => /\ parse_out.pulled <= Len(comp_data.data)
       /\ Len(parse_out.models) <= MAX_DISCOVERED_MODELS
       /\ Len(parse_out.models) <= MAX_MODELS_PER_NODE
       /\ comp_data.encoded
          => LET declared == DeclaredModels(comp_data.elems)
                 n == Min(MAX_DISCOVERED_MODELS,
                          WholeModels(comp_data.elems, Len(comp_data.data)))
             IN  parse_out.models = SubSeq(declared, 1, n)

\* a whole page declaring 19 models in three elements was parsed into the
\* first 16 of them
C27_Witness ==
    /\ parse_out.called
    /\ comp_data.encoded
    /\ Len(comp_data.elems) = 3
    /\ Len(DeclaredModels(comp_data.elems)) = 19
    /\ comp_data.data = Page0(comp_data.elems)
    /\ Len(parse_out.models) = 16

\* a page cut inside a vendor pair was parsed
CutInsideVendorPair ==
    /\ parse_out.called
    /\ comp_data.encoded
    /\ comp_data.elems = << Elem(1, 1) >>
    /\ Len(comp_data.data) = 18
    /\ Len(parse_out.models) = 1


\* ---------------------------------------------------------------------
\* Routing of vendor messages by the bridge
\* (mesh_mqtt_bridge.c:100-105, 124-129, 168-189)
\* ---------------------------------------------------------------------

\* a step in which mesh_vendor_client_cb handles the pending vendor event
VendorStep == vendor_msg # NoVendorEvent /\ vendor_msg' = NoVendorEvent

\* the pending event is a received message that the initialized bridge
\* routes and decodes
Routed ==
    /\ vendor_msg.event = "MODEL_OPERATION_EVT"
    /\ bridge.linked /\ bridge.g_bridge_initialized
    /\ \E i \in 1 .. Len(message_router) :
           message_router[i].opcode = vendor_msg.opcode
    /\ Len(vendor_msg.data) = 8

\* the channel {prefix}/imu/0x<4-hex-digit node address>
ImuChannel(prefix, addr) ==
    prefix \o << "/", "i", "m", "u", "/" >> \o Hex4(addr)

\* the pending message has an opcode that is not in the routing table
Unrouted ==
    \A i \in 1 .. Len(message_router) :
        message_router[i].opcode # vendor_msg.opcode

(***************************************************************************)
(* C28: a vendor message whose opcode is in the routing table and that     *)
(* decodes causes exactly one publish, to the channel                      *)
(* {prefix}/imu/0x<4-hex-digit node address>; a message whose opcode is    *)
(* not in the table causes no publish.                                     *)
(***************************************************************************)
C28_RoutedPublish ==
    [][VendorStep =>
          /\ Routed
             => /\ Len(mqtt') = 1
                /\ mqtt'[1].topic
                       = ImuChannel(bridge.mqtt_topic_prefix, vendor_msg.addr)
          /\ Unrouted => mqtt' = << >>]_vars

\* what the code does: one publish for a routed message, to the first 63
\* characters of the channel name; none for an opcode outside the table
RoutedPublishCut ==
    [][VendorStep =>
          /\ Routed
             => /\ Len(mqtt') = 1
                /\ LET channel == ImuChannel(bridge.mqtt_topic_prefix,
                                             vendor_msg.addr)
                   IN  mqtt'[1].topic
                           = SubSeq(channel, 1,
                                    Min(Len(channel), TOPIC_SIZE - 1))
          /\ Unrouted => mqtt' = << >>]_vars

\* with a prefix of at most 52 characters the channel is the one of C28
RoutedPublishFits ==
    [][(VendorStep /\ Routed
        /\ Len(bridge.mqtt_topic_prefix) <= TOPIC_SIZE - 12)
       => /\ Len(mqtt') = 1
          /\ mqtt'[1].topic
                 = ImuChannel(bridge.mqtt_topic_prefix, vendor_msg.addr)]_vars

\* an IMU message from node 0xABCD was published to mesh/imu/0xabcd
MeshChannelPublished ==
    /\ Len(mqtt) = 1
    /\ mqtt[1].topic = << "m", "e", "s", "h", "/", "i", "m", "u", "/",
                          "0", "x", "a", "b", "c", "d" >>

\* an IMU message was published with a prefix of 53 characters
CutChannelPublished ==
    /\ Len(mqtt) = 1
    /\ Len(bridge.mqtt_topic_prefix) = TOPIC_SIZE - 11
    /\ Len(mqtt[1].topic) = TOPIC_SIZE - 1


(***************************************************************************)
(* Onboarding with telemetry: the nodes are provisioned and configured as  *)
(* under reliable delivery, with two kinds of composition data, while one  *)
(* vendor message and one sensor status arrive at any time, in a firmware  *)
(* without the bridge, with the bridge linked but not initialized, and     *)
(* with the bridge initialized.                                            *)
(***************************************************************************)
InitBridge ==
    /\ nodes = [i \in NodeIdx |-> ZeroNode]
    /\ node_count = 0
    /\ inflight = EmptyBag
    /\ sent = [a \in Addrs |-> << >>]
    /\ provs = 0
    /\ strays = 0
    /\ fails = 0
    /\ hist = [u \in UUIDs |-> << >>]
    /\ sensor_msg \in {SensorEvent("PUBLISH_EVT", "SENSOR_STATUS", 0, 5, d) :
                           d \in {<< 5, 55, 42, 60, 0 >>, << 9, 1 >>}}
    /\ sensor_log = NoSensorLog
    /\ bridge \in {NoBridge, Bridge(TRUE, FALSE, << >>),
                   Bridge(TRUE, TRUE, MeshPrefix)}
    /\ vendor_msg = VendorEvent("MODEL_OPERATION_EVT", VENDOR_OP_IMU_DATA, 5,
                                ImuExample)
    /\ vendor_log = NoVendorLog
    /\ mqtt = << >>
    /\ comp_data = NoCompData
    /\ parse_out = NoParse
    /\ wifi = NoWifi
    /\ build = COMPONENT

NextBridge ==
    \/ ProvComplete
    \/ CompositionDataStatusAny
    \/ AppKeyStatus
    \/ ModelAppStatus
    \/ ModelPubStatus
    \/ VendorClientEvent
    \/ SensorClientEvent

SpecBridge == InitBridge /\ [][NextBridge]_vars

\* a step in which a vendor message or a sensor status is handled
TelemetryStep == VendorStep \/ SensorStep

\* the bridge's handlers are in place and mesh_mqtt_bridge_init has run
Bridging == bridge.linked /\ bridge.g_bridge_initialized

(***************************************************************************)
(* C29: without the bridge's handlers, or with the bridge not initialized, *)
(* a vendor message or sensor status causes no publish; handling one never *)
(* changes the registry, a cursor or the requests; and with or without the *)
(* bridge every stored node's registry entry and request trace are those   *)
(* that the node's own provisioning and configuration events produce       *)
(* when they are handled alone.                                            *)
(***************************************************************************)
C29_BridgeOptional ==
    [][/\ TelemetryStep
          => /\ ~Bridging => mqtt' = << >>
             /\ UNCHANGED << nodes, node_count, inflight, sent, hist >>
       /\ \A u \in UUIDs :
              LET k == UuidSlotFrom(nodes', node_count', u, 0)
                  al == Alone(hist'[u])
              IN  IF k < 0 THEN hist'[u] = << >>
                  ELSE /\ al.nodes[0] = nodes'[k]
                       /\ al.sent = sent'[nodes'[k].unicast]]_vars

\* with the bridge linked and not initialized the IMU message and the heart
\* rate were handled without a publish, between the steps of a node that is
\* now configured
C29_Witness ==
    /\ bridge.linked /\ ~bridge.g_bridge_initialized
    /\ vendor_log.handed
    /\ Len(sensor_log.calls) = 1
    /\ mqtt = << >>
    /\ \E a \in Addrs : Count(sent[a], "READY") > 0

\* the same with the bridge initialized: the message handled last was
\* published
BridgedWhileConfigured ==
    /\ Bridging
    /\ vendor_log.handed
    /\ Len(sensor_log.calls) = 1
    /\ Len(mqtt) = 1
    /\ \E a \in Addrs : Count(sent[a], "READY") > 0


(***************************************************************************)
(* Onboarding at the capacity of the registry: nine devices were stored    *)
(* before (prov_complete for each, the composition request of each         *)
(* refused by the stack, so that none has a request pending); the devices  *)
(* of UUIDs are then provisioned and configured under reliable delivery.   *)
(* The first of them to be stored fills the registry.                      *)
(***************************************************************************)
StoredBefore == MESH_STORAGE_MAX_NODES - 1

InitFull ==
    /\ nodes = AddFirst(StoredBefore).nodes
    /\ node_count = AddFirst(StoredBefore).node_count
    /\ inflight = EmptyBag
    /\ sent = [a \in Addrs |-> << >>]
    /\ provs = 0
    /\ strays = 0
    /\ fails = 0
    /\ hist = [u \in UUIDs |-> << >>]
    /\ sensor_msg = NoSensorEvent
    /\ sensor_log = NoSensorLog
    /\ bridge = NoBridge
    /\ vendor_msg = NoVendorEvent
    /\ vendor_log = NoVendorLog
    /\ mqtt = << >>
    /\ comp_data = NoCompData
    /\ parse_out = NoParse
    /\ wifi = NoWifi
    /\ build = COMPONENT

SpecFull == InitFull /\ [][Next]_vars

\* the registry is full
Full == node_count = MESH_STORAGE_MAX_NODES

\* a step in which a provisioning-complete event is handled
ProvStep == provs' = provs + 1

\* the devices that are not stored
NewUuids == {u \in UUIDs : UuidSlotFrom(nodes, node_count, u, 0) < 0}

(***************************************************************************)
(* C30: with the registry full, the add for a new identifier returns       *)
(* ESP_ERR_NO_MEM and prov_complete returns ESP_FAIL without a composition *)
(* request; handling the provisioning-complete event creates and changes   *)
(* no registry entry and submits no request; and each stored node's entry  *)
(* and request trace stay those that its own events give when they are     *)
(* handled alone, whenever the refused event arrives.                      *)
(***************************************************************************)
C30_FullRefusesNew ==
    [][/\ Full
          => \A u \in NewUuids, unicast \in Addrs, elem_num \in ElemNums :
                 /\ mesh_storage_add_node(nodes, node_count, u, unicast,
                                          elem_num, LED_OFF).err
                        = "ESP_ERR_NO_MEM"
                 /\ LET r == prov_complete(nodes, node_count, u, unicast,
                                           elem_num, TRUE, TRUE)
                    IN  /\ r.err = "ESP_FAIL"
                        /\ r.reqs = << >>
                        /\ r.nodes = nodes /\ r.node_count = node_count
       /\ (Full /\ ProvStep)
          => UNCHANGED << nodes, node_count, inflight, sent, hist >>
       /\ \A u \in UUIDs :
              LET k == UuidSlotFrom(nodes', node_count', u, 0)
                  al == Alone(hist'[u])
              IN  IF k < 0 THEN hist'[u] = << >>
                  ELSE /\ al.nodes[0] = nodes'[k]
                       /\ al.sent = sent'[nodes'[k].unicast]]_vars

\* the registry is full, a second provisioning-complete event was refused
\* while the stored node had requests outstanding, and the stored node has
\* been configured to the end
C30_Witness ==
    /\ Full
    /\ provs = 2
    /\ NewUuids # {}
    /\ \E a \in Addrs : Known(a) /\ Count(sent[a], "READY") > 0

\* the refused event has arrived and the stored node still awaits an
\* acknowledgment
RefusedWhilePending ==
    /\ Full
    /\ provs = 2
    /\ NewUuids # {}
    /\ inflight # EmptyBag


(***************************************************************************)
(* WiFi reconnection (wifi_mqtt.c): wifi_mqtt_init stores a configuration, *)
(* then the WiFi driver delivers start, disconnected and got-address       *)
(* events to wifi_event_handler.                                           *)
(***************************************************************************)
MaxDisconnects == 7

WifiConfig(is_null, has_ssid, has_broker_uri, max_wifi_retry) ==
    [is_null |-> is_null, has_ssid |-> has_ssid,
     has_broker_uri |-> has_broker_uri, max_wifi_retry |-> max_wifi_retry]

WifiConfigs ==
    {WifiConfig(FALSE, TRUE, TRUE, n) : n \in {0, 1, 2, 3, 4, 5, 6, 7, 255}}
    \cup {WifiConfig(TRUE, FALSE, FALSE, 0), WifiConfig(FALSE, FALSE, TRUE, 0),
          WifiConfig(FALSE, TRUE, FALSE, 3)}

WifiMqttInit ==
    /\ ~wifi.initialized
    /\ \E config \in WifiConfigs : wifi' = wifi_mqtt_init(wifi, config).wifi
    /\ UNCHANGED << nodes, node_count, inflight, sent, provs, strays, fails,
                    hist, telemetry, parsing, build >>

WifiStaStart ==
    /\ wifi.initialized
    /\ wifi' = wifi_event_handler(wifi, "WIFI_EVENT", "STA_START")
    /\ UNCHANGED << nodes, node_count, inflight, sent, provs, strays, fails,
                    hist, telemetry, parsing, build >>

WifiDisconnected ==
    /\ wifi.initialized
    /\ wifi.disconnects < MaxDisconnects
    /\ wifi' = [wifi_event_handler(wifi, "WIFI_EVENT", "STA_DISCONNECTED")
                   EXCEPT !.disconnects = wifi.disconnects + 1]
    /\ UNCHANGED << nodes, node_count, inflight, sent, provs, strays, fails,
                    hist, telemetry, parsing, build >>

\* the station gets an address after a connection attempt
WifiGotIp ==
    /\ wifi.initialized
    /\ wifi.connect
    /\ wifi' = [wifi_event_handler(wifi, "IP_EVENT", "STA_GOT_IP")
                   EXCEPT !.disconnects = 0]
    /\ UNCHANGED << nodes, node_count, inflight, sent, provs, strays, fails,
                    hist, telemetry, parsing, build >>

NextWifi == WifiMqttInit \/ WifiStaStart \/ WifiDisconnected \/ WifiGotIp

SpecWifi == Init /\ [][NextWifi]_vars

\* a step in which a disconnected event is handled
DisconnectStep == wifi'.disconnects = wifi.disconnects + 1

(***************************************************************************)
(* C31: after wifi_mqtt_init with max_wifi_retry = 0, every disconnected   *)
(* event makes the handler call esp_wifi_connect, however many             *)
(* disconnected events came before it.                                     *)
(***************************************************************************)
C31_UnlimitedRetry ==
    [][(DisconnectStep /\ wifi.requested = 0) => wifi'.connect]_vars

\* what the code does: with max_wifi_retry passed as 0 the handler
\* reconnects on the first five consecutive disconnected events and on no
\* later one, as it does for max_wifi_retry = 5
FiveRetriesForZero ==
    [][(DisconnectStep /\ wifi.requested = 0)
       => (wifi'.connect <=> wifi.disconnects < DEFAULT_WIFI_RETRY)]_vars

\* a configured limit n > 0 allows n consecutive reconnections
LimitedRetry ==
    [][(DisconnectStep /\ wifi.requested > 0)
       => (wifi'.connect <=> wifi.disconnects < wifi.requested)]_vars

\* the sixth consecutive disconnected event after an init with 0 was
\* handled without a connection attempt
SixthDisconnectIgnored ==
    /\ wifi.initialized /\ wifi.requested = 0
    /\ wifi.disconnects = 6
    /\ ~wifi.connect


\* ---------------------------------------------------------------------
\* Refused submissions (ble_mesh_auto_config.c:379-387, 442-450, 499-507)
\* ---------------------------------------------------------------------

\* the event handled last for device u
LastEvent(h) == h[Len(h)]

\* a step in which the callback handles an event of device u and the mesh
\* stack refuses a bind or publish submission of the step that runs
RefusalStep(u) ==
    /\ Len(hist'[u]) = Len(hist[u]) + 1
    /\ LastEvent(hist'[u]).kind = "cfg"
    /\ LastEvent(hist'[u]).fail.bind \cup LastEvent(hist'[u]).fail.pub # {}

(***************************************************************************)
(* C32: when the submission of a bind or publish request for a model is    *)
(* refused, the node's cursor of that phase ends past the model, the       *)
(* model's flag of that phase stays clear, and the handler goes on: it     *)
(* submits the request of a later model or of the next phase, or           *)
(* announces the node configured when nothing is left.                     *)
(***************************************************************************)
C32_FailurePolicy ==
    [][\A u \in UUIDs :
           RefusalStep(u)
           => LET e == LastEvent(hist'[u])
                  a == e.param.addr
                  n == nodes'[UuidSlotFrom(nodes', node_count', u, 0)]
              IN  /\ \A i \in e.fail.bind :
                         /\ n.next_model_to_bind > i
                         /\ ~n.models[i].appkey_bound
                  /\ \A i \in e.fail.pub :
                         /\ n.next_model_to_pub > i
                         /\ ~n.models[i].pub_configured
                  /\ Len(sent'[a]) > Len(sent[a])]_vars

\* the indices at or after cursor c whose request a step submits or has
\* refused: those of the eligible models that are not flagged
Todo(n, c, flagged(_), eligible(_)) ==
    {i \in c .. (n.model_count - 1) :
        ~flagged(n.models[i]) /\ eligible(ModelList(n)[i + 1])}

\* r is what a step started at cursor c with the refusals F returns: every
\* refused model before the first accepted one is passed with its flag
\* clear, the request is the one of the first model that is not refused,
\* and the step returns false with the cursor at the end when every
\* remaining model is refused
Abandons(n, r, F, c, rc, todo, op) ==
    LET open == todo \ F
    IN  /\ r.ret <=> open # {}
        /\ r.nfail = Cardinality({i \in todo \cap F :
                                     \A j \in open : i < j})
        /\ open = {} => rc = (IF c < n.model_count THEN n.model_count ELSE c)
                        /\ r.reqs = << >>
        /\ open # {} => /\ \A j \in open : rc <= j
                        /\ rc \in open
                        /\ Len(r.reqs) = 1
                        /\ r.reqs[1].opcode = op
                        /\ ModelOf(r.reqs[1]) = ModelList(n)[rc + 1]
        /\ \A i \in todo \cap F : i < rc => r.info.models[i] = n.models[i]

AppkeyBound(m) == m.appkey_bound
PubConfigured(m) == m.pub_configured
SubConfigured(m) == m.sub_configured

\* what the three steps do, each taken alone on a stored entry, for every
\* set of refused submissions
StepAbandonsRefused ==
    \A a \in Addrs :
        Known(a)
        => LET n == Entry(a)
           IN  \A F \in SUBSET (0 .. (n.model_count - 1)) :
                   /\ LET r == bind_next_model(a, n, F)
                      IN  Abandons(n, r, F, n.next_model_to_bind,
                                   r.info.next_model_to_bind,
                                   Todo(n, n.next_model_to_bind, AppkeyBound,
                                        BindEligible),
                                   "MODEL_APP_BIND")
                   /\ LET r == configure_next_publication(a, n, F)
                      IN  Abandons(n, r, F, n.next_model_to_pub,
                                   r.info.next_model_to_pub,
                                   Todo(n, n.next_model_to_pub, PubConfigured,
                                        PubEligible),
                                   "MODEL_PUB_SET")
                   /\ LET r == subscribe_next_model(a, n, F)
                      IN  Abandons(n, r, F, n.next_model_to_sub,
                                   r.info.next_model_to_sub,
                                   Todo(n, n.next_model_to_sub, SubConfigured,
                                        SubEligible),
                                   "MODEL_SUB_ADD")

\* every bind submission of the key-add step was refused: no request is
\* pending for the node and it was not announced
BindRefusedAndStalled ==
    \E a \in Addrs :
        /\ Known(a)
        /\ Entry(a).appkey_added
        /\ NumBindEligible(Entry(a)) > 0
        /\ Count(sent[a], "MODEL_APP_BIND") = 0
        /\ Count(sent[a], "READY") = 0
        /\ Idle(a)
        /\ fails > 0


\* ---------------------------------------------------------------------
\* Unacknowledged requests (part_008:635-638, 788-794)
\* ---------------------------------------------------------------------
CfgOpcodes == {"COMPOSITION_DATA_GET", "APP_KEY_ADD", "MODEL_APP_BIND",
               "MODEL_PUB_SET"}

\* the timeout events and the events with an error code: << event, code >>
Unanswered == {<< "TIMEOUT_EVT", 0 >>, << "TIMEOUT_EVT", 1 >>,
               << "GET_STATE_EVT", 1 >>, << "SET_STATE_EVT", 1 >>}

\* the callback applied in the current state to a timeout or to an event
\* that carries an error code leaves the registry as it is, submits no
\* request and announces no node
TimeoutAndErrorIgnored ==
    \A a \in Addrs, e \in Unanswered, opcode \in CfgOpcodes :
        LET r == mesh_config_client_cb(nodes, node_count, e[1],
                     Param(opcode, a, e[2], << >>, 4096,
                           ESP_BLE_MESH_CID_NVAL), NoFail)
        IN  /\ r.nodes = nodes
            /\ r.reqs = << >>
            /\ r.ready = 0

\* the requests to address a: none is submitted in the step
NoneSubmitted(a) ==
    \A r \in BagToSet(inflight') :
        r.addr = a => CopiesIn(r, inflight') <= CopiesIn(r, inflight)

(***************************************************************************)
(* C33: a timeout event or an event with an error code changes no registry *)
(* entry and submits no request; and as long as no acknowledgment or       *)
(* provisioning event of a stored node is handled, whatever else happens   *)
(* (timeouts and failed sends of its own requests included), the node's    *)
(* registry entry stays as it is and no request is submitted for it.       *)
(***************************************************************************)
C33_NoRetry ==
    [][/\ TimeoutAndErrorIgnored
       /\ \A u \in UUIDs :
              LET k == UuidSlotFrom(nodes, node_count, u, 0)
              IN  (k >= 0 /\ hist'[u] = hist[u])
                  => /\ nodes'[k] = nodes[k]
                     /\ sent'[nodes[k].unicast] = sent[nodes[k].unicast]
                     /\ NoneSubmitted(nodes[k].unicast)]_vars

\* the key-add request of a node was submitted, is no longer pending and
\* was never acknowledged: the node is left between composition and
\* binding, with no request pending
C33_Witness ==
    \E a \in Addrs :
        /\ Known(a)
        /\ Entry(a).composition_received
        /\ ~Entry(a).appkey_added
        /\ Count(sent[a], "APP_KEY_ADD") = 1
        /\ Idle(a)
        /\ fails = 0


\* ---------------------------------------------------------------------
\* The composition case of the callback (part_008:647-694)
\* ---------------------------------------------------------------------

\* a step in which the callback handles the composition status of device u
CompositionStep(u) ==
    /\ Len(hist'[u]) = Len(hist[u]) + 1
    /\ LastEvent(hist'[u]).kind = "cfg"
    /\ LastEvent(hist'[u]).param.opcode = "COMPOSITION_DATA_GET"

KeyAddRequest(a) == Request("APP_KEY_ADD", a, 0, 0, 0, 0, 0, 0)

OfOpcode(h, opcode) ==
    {i \in 1 .. Len(h) : h[i].kind = "cfg" /\ h[i].param.opcode = opcode}

KeyAddStep(u) ==
    /\ Len(hist'[u]) = Len(hist[u]) + 1
    /\ LastEvent(hist'[u]).kind = "cfg"
    /\ LastEvent(hist'[u]).param.opcode = "APP_KEY_ADD"
    /\ LastEvent(hist'[u]).fail = NoFail

\* entry n has no model for which the bind step submits a request
NothingToBind(n) ==
    Todo(n, n.next_model_to_bind, AppkeyBound, BindEligible) = {}

(***************************************************************************)
(* C35: when the AppKey status of a node is handled and the bind step      *)
(* finds no model to bind, the publish step runs in the same handler: the  *)
(* handler submits the publish request of the node's first publish-        *)
(* eligible model, or announces the node when it has none.                 *)
(***************************************************************************)
C35_NothingToBindPublishes ==
    [][\A u \in UUIDs :
           LET n == nodes[UuidSlotFrom(nodes, node_count, u, 0)]
               a == n.unicast
               p == configure_next_publication(a, n, {})
           IN  (KeyAddStep(u) /\ NothingToBind(n))
               => sent'[a] = sent[a] \o p.reqs
                                 \o Readies(a, IF p.ret THEN 0 ELSE 1)]_vars

\* what the code does: the handler submits nothing and announces nothing
\* when the bind step finds no model to bind, and the entry differs from
\* the one before only in appkey_added
NothingToBindStalls ==
    [][\A u \in UUIDs :
           LET k == UuidSlotFrom(nodes, node_count, u, 0)
               a == nodes[k].unicast
           IN  (KeyAddStep(u) /\ NothingToBind(nodes[k]))
               => /\ sent'[a] = sent[a]
                  /\ \A r \in BagToSet(inflight') : r.addr # a
                  /\ nodes'[k] = [nodes[k] EXCEPT !.appkey_added = TRUE]]_vars

\* the AppKey status of a node whose only models are the two configuration
\* models was handled: no request is pending and the node is not announced
KeyAddedAndStalled ==
    \E a \in Addrs :
        /\ Known(a)
        /\ Entry(a).appkey_added
        /\ Entry(a).model_count = 2
        /\ NumBindEligible(Entry(a)) = 0
        /\ sent[a] = << KeyAddRequest(a) >>
        /\ Idle(a)


(***************************************************************************)
(* The publish and subscribe steps applied to a stored node: the firmware  *)
(* is linked with one of the two sources of the steps, a node is stored    *)
(* with the models of its composition data, and each step is called once;  *)
(* the mesh stack may refuse a submission, which makes the step go on to   *)
(* the next model.                                                         *)
(***************************************************************************)
\* a composition with the time setup server 0x1201, the on/off client
\* 0x1001 and the model 0x1303
CompSetup == Page0Header \o Element(<< 4609, 4097, 4867 >>, << >>)

StepBufs == CompBufs \cup {CompSetup}

InitSteps ==
    /\ \E uuid \in UUIDs, unicast \in Addrs, buf \in StepBufs :
           LET a == mesh_storage_add_node([i \in NodeIdx |-> ZeroNode], 0,
                                          uuid, unicast, 1, LED_OFF)
               c == OnCompositionData(a.nodes, a.node_count, a.nodes[0],
                        Param("COMPOSITION_DATA_GET", unicast, 0, buf, 0, 0),
                        NoFail)
           IN  /\ nodes = c.nodes
               /\ node_count = a.node_count
    /\ inflight = EmptyBag
    /\ sent = [a \in Addrs |-> << >>]
    /\ provs = 0
    /\ strays = 0
    /\ fails = 0
    /\ hist = [u \in UUIDs |-> << >>]
    /\ sensor_msg = NoSensorEvent
    /\ sensor_log = NoSensorLog
    /\ bridge = NoBridge
    /\ vendor_msg = NoVendorEvent
    /\ vendor_log = NoVendorLog
    /\ mqtt = << >>
    /\ comp_data = NoCompData
    /\ parse_out = NoParse
    /\ wifi = NoWifi
    /\ build \in Builds

\* the step leaves r: the working copy is stored and the requests are sent
StepDone(a, r, F) ==
    /\ r.nfail = Cardinality(F)
    /\ fails + r.nfail <= MaxFail
    /\ fails' = fails + r.nfail
    /\ nodes' = mesh_storage_update_node(nodes, node_count, a, r.info)
    /\ inflight' = inflight (+) SeqToBag(r.reqs)
    /\ sent' = [sent EXCEPT ![a] = @ \o r.reqs]
    /\ UNCHANGED << node_count, provs, strays, hist, telemetry, parsing, wifi,
                    build >>

PublishStep ==
    \E a \in Addrs :
        /\ Known(a)
        /\ Count(sent[a], "MODEL_PUB_SET") = 0
        /\ \E F \in SUBSET (0 .. (Entry(a).model_count - 1)) :
               StepDone(a, IF build = PART_007
                           THEN configure_next_publication_part_007(
                                    a, Entry(a), F)
                           ELSE configure_next_publication(a, Entry(a), F), F)

SubscribeStep ==
    \E a \in Addrs :
        /\ Known(a)
        /\ build = COMPONENT
        /\ Count(sent[a], "MODEL_SUB_ADD") = 0
        /\ \E F \in SUBSET (0 .. (Entry(a).model_count - 1)) :
               StepDone(a, subscribe_next_model(a, Entry(a), F), F)

NextSteps == PublishStep \/ SubscribeStep

SpecSteps == InitSteps /\ [][NextSteps]_vars

\* every publish request in the trace s has destination dest, hop limit 7
\* and period 0, and every subscribe request has the address dest
AllTo(s, dest) ==
    \A i \in 1 .. Len(s) :
        /\ s[i].opcode = "MODEL_PUB_SET"
           => s[i].dest = dest /\ s[i].ttl = 7 /\ s[i].period = 0
        /\ s[i].opcode = "MODEL_SUB_ADD" => s[i].dest = dest

(***************************************************************************)
(* C36: every publish request submitted, for every model and node, has the *)
(* destination 0xC001, hop limit 7 and period 0, and every subscribe       *)
(* request has the address 0xC001.                                         *)
(***************************************************************************)
C36_FixedGroupAddress ==
    \A a \in Addrs : AllTo(sent[a], GROUP_SENSOR_DATA)

\* what the code does: the destination is 0xC001 with the component's
\* source and 0x0001, the provisioner's own address, with part_007; hop
\* limit and period are 7 and 0 with both
DestinationByBuild ==
    \A a \in Addrs :
        AllTo(sent[a], IF build = PART_007 THEN PROV_OWN_ADDR
                       ELSE GROUP_SENSOR_DATA)

\* with the component's source a publish and a subscribe request were
\* submitted for a node
GroupPublishAndSubscribe ==
    \E a \in Addrs :
        /\ build = COMPONENT
        /\ Count(sent[a], "MODEL_PUB_SET") = 1
        /\ Count(sent[a], "MODEL_SUB_ADD") = 1

\* with part_007 a publish request was submitted for a vendor model
UnicastPublish ==
    \E a \in Addrs :
        /\ build = PART_007
        /\ Len(sent[a]) = 1
        /\ sent[a][1].opcode = "MODEL_PUB_SET"
        /\ sent[a][1].company_id = CID_ESP
        /\ sent[a][1].dest = PROV_OWN_ADDR


\* ---------------------------------------------------------------------
\* Parity of the publish-eligible model ids
\* (ble_mesh_auto_config.c:159-180)
\* ---------------------------------------------------------------------
\* the standard model ids checked: every id up to 0x1FFF
StandardIds == 0 .. 8191

Even(id) == id % 2 = 0

\* the odd case labels of model_supports_publication
OddServers == {4609, 4865, 4867}

\* the standard models for which a publish request of trace s was submitted
StandardPublished(s) ==
    {s[i].model_id : i \in {j \in 1 .. Len(s) :
                               /\ s[j].opcode = "MODEL_PUB_SET"
                               /\ s[j].company_id = ESP_BLE_MESH_CID_NVAL}}

\* the standard models of entry n for which model_supports_publication
\* returns true
StandardEligible(n) ==
    {n.models[i].model_id : i \in {j \in 0 .. (n.model_count - 1) :
        /\ n.models[j].company_id = ESP_BLE_MESH_CID_NVAL
        /\ model_supports_publication(n.models[j].model_id,
                                      n.models[j].company_id)}}

C38_BelowCursorComplete ==
    \A a \in Addrs :
        Known(a)
        => /\ \A i \in 0 .. (Entry(a).next_model_to_bind - 1) :
                  Entry(a).models[i].appkey_bound
           /\ \A i \in 0 .. (Entry(a).next_model_to_pub - 1) :
                  Entry(a).models[i].pub_configured

\* the (id, company) pair of model i of entry n occurs at a lower index
Repeated(n, i) ==
    \E j \in 0 .. (i - 1) : ModelList(n)[j + 1] = ModelList(n)[i + 1]

\* what the code does: an acknowledgment flags the first model with the
\* acknowledged pair, so a model below a cursor is flagged unless its pair
\* occurs at a lower index
BelowCursorCompleteUnlessRepeated ==
    \A a \in Addrs :
        Known(a)
        => /\ \A i \in 0 .. (Entry(a).next_model_to_bind - 1) :
                  Entry(a).models[i].appkey_bound \/ Repeated(Entry(a), i)
           /\ \A i \in 0 .. (Entry(a).next_model_to_pub - 1) :
                  Entry(a).models[i].pub_configured \/ Repeated(Entry(a), i)

\* the second of two models with the same pair is never flagged
RepeatedNeverFlagged ==
    \A a \in Addrs :
        Known(a)
        => \A i \in 0 .. (Entry(a).model_count - 1) :
               (Repeated(Entry(a), i) /\ BindEligible(ModelList(Entry(a))[i + 1]))
               => ~Entry(a).models[i].appkey_bound

\* an acknowledgment for a pair that no model of the node has was handled
\* and advanced the bind cursor beyond the number of models
StrayAckAdvanced ==
    \E a \in Addrs :
        /\ Known(a)
        /\ Entry(a).next_model_to_bind > Entry(a).model_count

\* both bind requests of a node with the model 0x1000 in two elements were
\* acknowledged: the cursor is 2 and the second model is not flagged
SecondOfPairUnflagged ==
    \E a \in Addrs :
        /\ Known(a)
        /\ Entry(a).model_count = 2
        /\ Entry(a).next_model_to_bind = 2
        /\ Entry(a).models[0].appkey_bound
        /\ ~Entry(a).models[1].appkey_bound
        /\ Count(sent[a], "MODEL_APP_BIND") = 2


\* ---------------------------------------------------------------------
\* What the handlers store (part_008:699-708, 734-750, 776-785)
\* ---------------------------------------------------------------------

\* a step in which the callback handles an acknowledgment of device u
AckStep(u) ==
    /\ Len(hist'[u]) = Len(hist[u]) + 1
    /\ LastEvent(hist'[u]).kind = "cfg"
    /\ LastEvent(hist'[u]).param.opcode
           \in {"APP_KEY_ADD", "MODEL_APP_BIND", "MODEL_PUB_SET"}

\* the handler's copy of entry n before the steps run for event e: the
\* copy it stores first
CopyStored(n, e) ==
    IF e.param.opcode = "APP_KEY_ADD"
    THEN [n EXCEPT !.appkey_added = TRUE]
    ELSE IF e.param.opcode = "MODEL_APP_BIND"
    THEN [MarkFirst(n, e.param.model_id, e.param.company_id,
                    "appkey_bound", 0)
             EXCEPT !.next_model_to_bind = Inc8(@)]
    ELSE [MarkFirst(n, e.param.model_id, e.param.company_id,
                    "pub_configured", 0)
             EXCEPT !.next_model_to_pub = Inc8(@)]

\* the handler's copy of entry n when the handler of event e returns: what
\* the last step that ran left in it; requested tells whether that step
\* submitted a request
WorkingCopy(n, e) ==
    LET a == e.param.addr
        info == CopyStored(n, e)
        b == bind_next_model(a, info, e.fail.bind)
        p == configure_next_publication(
                 a, IF e.param.opcode = "MODEL_PUB_SET" THEN info ELSE b.info,
                 e.fail.pub)
    IN  IF e.param.opcode = "APP_KEY_ADD"
        THEN [info |-> b.info, requested |-> b.ret]
        ELSE IF e.param.opcode = "MODEL_APP_BIND" /\ b.ret
        THEN [info |-> b.info, requested |-> TRUE]
        ELSE [info |-> p.info, requested |-> p.ret]

(***************************************************************************)
(* C39: when the handler of an acknowledgment returns, the node's registry *)
(* entry is the handler's working copy as the last step that ran left it,  *)
(* with the flags and cursor advances of the models that step passed over, *)
(* also when the step found nothing left to request.                       *)
(***************************************************************************)
C39_ProgressStored ==
    [][\A u \in UUIDs :
           AckStep(u)
           => LET k == UuidSlotFrom(nodes, node_count, u, 0)
              IN  nodes'[k]
                      = WorkingCopy(nodes[k], LastEvent(hist'[u])).info]_vars

\* what the code does: the working copy is stored when the last step
\* submitted a request; when it found nothing left to request the entry
\* stays the copy stored before the steps ran
ProgressStoredOnRequest ==
    [][\A u \in UUIDs :
           AckStep(u)
           => LET k == UuidSlotFrom(nodes, node_count, u, 0)
                  e == LastEvent(hist'[u])
                  w == WorkingCopy(nodes[k], e)
              IN  nodes'[k] = IF w.requested THEN w.info
                              ELSE CopyStored(nodes[k], e)]_vars

\* a node whose one model is the on/off client was announced: the publish
\* step flagged the model and moved the cursor to 1 on the working copy,
\* and the registry entry has neither
ProgressLost ==
    \E a \in Addrs :
        /\ Known(a)
        /\ Count(sent[a], "READY") = 1
        /\ Entry(a).model_count = 1
        /\ ~Entry(a).models[0].pub_configured
        /\ Entry(a).next_model_to_pub = 0


\* ---------------------------------------------------------------------
\* Events and updates for an address that is not stored
\* (part_008:640-644, ble_mesh_storage.c:161-177, 195-210)
\* ---------------------------------------------------------------------

\* the callback applied in the current state to a status for address a
\* changes no entry, submits no request and announces no node
Dropped(a) ==
    \A opcode \in CfgOpcodes, m \in StatusModels, buf \in {<< >>, CompE2E} :
        LET r == mesh_config_client_cb(nodes, node_count, StatusEvent(opcode),
                     Param(opcode, a, 0, buf, m.model_id, m.company_id),
                     NoFail)
        IN  /\ r.nodes = nodes
            /\ r.reqs = << >>
            /\ r.ready = 0
            /\ r.nfail = 0

\* mesh_storage_update_node for address a, with an empty entry or a copy of
\* a stored one, returns ESP_ERR_NOT_FOUND and leaves the registry as it is
UpdateRefused(a) ==
    \A info \in {ZeroNode} \cup {nodes[i] : i \in 0 .. (node_count - 1)} :
        /\ mesh_storage_update_node_err(nodes, node_count, a) = "ESP_ERR_NOT_FOUND"
        /\ mesh_storage_update_node(nodes, node_count, a,
                                    [info EXCEPT !.unicast = a]) = nodes

\* a step in which an event is delivered that answers no request and that
\* the callback handles for no node
DroppedStep == strays' = strays + 1 /\ hist' = hist

(***************************************************************************)
(* C40: a composition, key-add, bind or publish status for an address that *)
(* has no registry entry creates and changes no entry, leaves the node     *)
(* count as it is and submits no request; and mesh_storage_update_node for *)
(* such an address returns ESP_ERR_NOT_FOUND and leaves the registry       *)
(* unchanged.                                                              *)
(***************************************************************************)
C40_UnknownDropped ==
    [][/\ \A a \in Addrs : ~Known(a) => Dropped(a) /\ UpdateRefused(a)
       /\ DroppedStep
          => UNCHANGED << nodes, node_count, inflight, sent >>]_vars

\* a node is stored with a request pending, and two events for an address
\* that has no entry were delivered
C40_Witness ==
    /\ strays = 2
    /\ node_count = 1
    /\ \A u \in UUIDs : Len(hist[u]) <= 1
    /\ \E a \in Addrs : ~Known(a)
    /\ inflight # EmptyBag

=============================================================================
